---- MODULE Spec2Model ----
(***************************************************************************)
(* Model of the two pure engines of the catalog browser:                   *)
(*   - the Annotator (FormattedText: block splitting, entity linking, URL  *)
(*     linking) of the activity page and of the tool pages,                *)
(*   - the Ranker (searchWithScoring / calculateItemScore).                *)
(* Strings are sequences of one-character strings.                         *)
(***************************************************************************)
EXTENDS Integers, Sequences, FiniteSets, TLC

VARIABLES
    children,      \* Annotator: the text given to FormattedText
    activities,    \* Annotator: the activities prop
    tools,         \* Annotator: the tools prop
    currentId,     \* Annotator: currentActivityId / currentToolId
    elements,      \* Annotator: the returned block sequence
    isNull,        \* Annotator: FormattedText returned null
    items,         \* Ranker: the input list
    query,         \* Ranker: the raw query string
    ranked,        \* Ranker: the returned list
    itemScore,     \* Ranker: the value returned by calculateItemScore
    threw,         \* the call ended by throwing instead of returning
    calls,         \* interleaved calls: the props and the local variables of each
    op,            \* which operation produced the result
    pc,            \* "start" before the call, "done" after it returned
    localStorage,  \* browser: the item stored under each key, NoItem when there is none
    provider,      \* StarredProvider: its state, queued state updates and pending effects
    modal          \* IntroModal: its props, its state and its timer

\* the variables of the two engines, and those of the browser components
engineVars == <<children, activities, tools, currentId, elements, isNull, items, query, ranked,
               itemScore, threw, calls, op, pc>>
uiVars == <<localStorage, provider, modal>>

vars == <<engineVars, uiVars>>

----------------------------------------------------------------------------
(* Characters and strings *)

UpperLetters == <<"A","B","C","D","E","F","G","H","I","J","K","L","M",
                  "N","O","P","Q","R","S","T","U","V","W","X","Y","Z">>
LowerLetters == <<"a","b","c","d","e","f","g","h","i","j","k","l","m",
                  "n","o","p","q","r","s","t","u","v","w","x","y","z">>
Digits == <<"0","1","2","3","4","5","6","7","8","9">>

Range(s) == {s[i] : i \in DOMAIN s}

\* U+00A0, the no-break space
NBSP == "NBSP"

\* what String.prototype.trim strips and what \s matches
WhiteSpace == {" ", "\t", "\n", "\r", NBSP}

UpperSet == Range(UpperLetters)
LowerSet == Range(LowerLetters)

\* the characters \w matches: [A-Za-z0-9_]
WordChars == UpperSet \cup LowerSet \cup Range(Digits) \cup {"_"}

\* the lower-case letter of every upper-case letter, and the converse
LowerOf == [c \in UpperSet |-> LowerLetters[CHOOSE i \in 1..26 : UpperLetters[i] = c]]
UpperOf == [c \in LowerSet |-> UpperLetters[CHOOSE i \in 1..26 : LowerLetters[i] = c]]

ToLowerChar(c) == IF c \in UpperSet THEN LowerOf[c] ELSE c

ToUpperChar(c) == IF c \in LowerSet THEN UpperOf[c] ELSE c

\* String.prototype.toLowerCase / toUpperCase
ToLowerCase(s) == [i \in 1..Len(s) |-> ToLowerChar(s[i])]
ToUpperCase(s) == [i \in 1..Len(s) |-> ToUpperChar(s[i])]

RECURSIVE Concat(_)
\* the concatenation of a sequence of strings
Concat(ss) == IF ss = <<>> THEN <<>> ELSE Head(ss) \o Concat(Tail(ss))

RECURSIVE TrimStart(_)
TrimStart(s) ==
    IF s # <<>> /\ Head(s) \in WhiteSpace THEN TrimStart(Tail(s)) ELSE s

RECURSIVE TrimEnd(_)
TrimEnd(s) ==
    IF s # <<>> /\ s[Len(s)] \in WhiteSpace THEN TrimEnd(SubSeq(s, 1, Len(s) - 1)) ELSE s

\* String.prototype.trim
Trim(s) == TrimEnd(TrimStart(s))

\* String.prototype.startsWith
StartsWith(s, prefix) ==
    /\ Len(prefix) <= Len(s)
    /\ SubSeq(s, 1, Len(prefix)) = prefix

\* String.prototype.includes
Includes(s, sub) ==
    \E p \in 1..(Len(s) - Len(sub) + 1) : SubSeq(s, p, p + Len(sub) - 1) = sub

\* String.prototype.substring(from) with a 0-based index
Substring(s, from) == SubSeq(s, from + 1, Len(s))

RECURSIVE SplitOn(_, _)
\* String.prototype.split(sep) for a one-character separator
SplitOn(s, sep) ==
    IF \A i \in 1..Len(s) : s[i] # sep
    THEN <<s>>
    ELSE LET i == CHOOSE k \in 1..Len(s) :
                      s[k] = sep /\ \A j \in 1..(k - 1) : s[j] # sep
         IN  <<SubSeq(s, 1, i - 1)>> \o SplitOn(SubSeq(s, i + 1, Len(s)), sep)

----------------------------------------------------------------------------
(* Records: a mapping from field name to string; a missing field is a     *)
(* field name outside the record's domain.                                 *)

\* the value undefined, of the same shape as a string so that the two compare
Undefined == <<"UNDEFINED">>

\* item.id, undefined when the record has no id
IdOf(item) == IF "id" \in DOMAIN item THEN item["id"] ELSE Undefined

\* item[field] without the "|| ''": undefined for a missing field
FieldRaw(item, f) == IF f \in DOMAIN item THEN item[f] ELSE Undefined

\* item[field] || ''
Field(item, f) == IF f \in DOMAIN item THEN item[f] ELSE <<>>

\* item['Display Name'] || item['code name'] (undefined shows as the empty string)
DisplayNameOf(item) ==
    IF Field(item, "Display Name") # <<>>
    THEN Field(item, "Display Name")
    ELSE Field(item, "code name")

----------------------------------------------------------------------------
(* Regular expressions of the Annotator *)

\* the characters escapeRegex escapes: . * + ? ^ $ { } ( ) | [ ] \
RegexSpecial == {".", "*", "+", "?", "^", "$", "{", "}", "(", ")", "|", "[", "]", "\\"}

\* str.replace(/[.*+?^${}()|[\]\\]/g, '\\$&')
escapeRegex(str) ==
    Concat([i \in 1..Len(str) |->
              IF str[i] \in RegexSpecial THEN <<"\\", str[i]>> ELSE <<str[i]>>])

\* the source text of new RegExp(`\\b${escapeRegex(name)}\\b`, 'gi')
EntityRegexSource(name) == <<"\\", "b">> \o escapeRegex(name) \o <<"\\", "b">>

RECURSIVE CompilePattern(_)
\* The atoms of a pattern source: \b is the word-boundary assertion, any other
\* escaped character is that literal character, an unescaped dot is any
\* character but a line terminator, every other character is a literal.
CompilePattern(src) ==
    IF src = <<>> THEN <<>>
    ELSE IF Head(src) = "\\" /\ Len(src) >= 2
         THEN <<IF src[2] = "b" THEN [kind |-> "wb", c |-> ""]
                ELSE [kind |-> "lit", c |-> src[2]]>>
              \o CompilePattern(SubSeq(src, 3, Len(src)))
         ELSE <<IF Head(src) = "." THEN [kind |-> "any", c |-> ""]
                ELSE [kind |-> "lit", c |-> Head(src)]>>
              \o CompilePattern(Tail(src))

\* is the character at 1-based position p of s a word character (none outside s)
IsWordAt(s, p) == p \in 1..Len(s) /\ s[p] \in WordChars

\* \b between positions p and p+1 of s
WordBoundary(s, p) == IsWordAt(s, p) # IsWordAt(s, p + 1)

RECURSIVE MatchAtomsCaseSensitive(_, _, _)
\* the atoms matched as a regex without the i flag does
MatchAtomsCaseSensitive(s, atoms, p) ==
    IF atoms = <<>> THEN p
    ELSE LET a == Head(atoms) IN
         CASE a.kind = "wb" ->
                IF (p - 1 \in 1..Len(s) /\ s[p - 1] \in WordChars)
                       # (p \in 1..Len(s) /\ s[p] \in WordChars)
                THEN MatchAtomsCaseSensitive(s, Tail(atoms), p) ELSE 0
           [] a.kind = "lit" ->
                IF p <= Len(s) /\ s[p] = a.c
                THEN MatchAtomsCaseSensitive(s, Tail(atoms), p + 1) ELSE 0
           [] a.kind = "any" ->
                IF p <= Len(s) /\ s[p] \notin {"\n", "\r"}
                THEN MatchAtomsCaseSensitive(s, Tail(atoms), p + 1) ELSE 0

RECURSIVE MatchAtoms(_, _, _)
\* The atoms matched against s from 1-based position p, ignoring case:
\* the position after the match, or 0 when there is none.
MatchAtoms(s, atoms, p) ==
    IF atoms = <<>> THEN p
    ELSE LET a == Head(atoms) IN
         CASE a.kind = "wb" ->
                IF WordBoundary(s, p - 1) THEN MatchAtoms(s, Tail(atoms), p) ELSE 0
           [] a.kind = "lit" ->
                IF p <= Len(s) /\ ToUpperChar(s[p]) = ToUpperChar(a.c)
                THEN MatchAtoms(s, Tail(atoms), p + 1) ELSE 0
           [] a.kind = "any" ->
                IF p <= Len(s) /\ s[p] \notin {"\n", "\r"}
                THEN MatchAtoms(s, Tail(atoms), p + 1) ELSE 0

RECURSIVE RegexIntervals(_, _, _)
\* The matches of a global regex in s from position `from` on, leftmost first and
\* not overlapping, each as <<first, last>>: what both item.match(regex) and
\* item.split(regex) walk through.
RegexIntervals(s, atoms, from) ==
    LET starts == {q \in from..Len(s) : MatchAtoms(s, atoms, q) > q}
    IN  IF starts = {} THEN <<>>
        ELSE LET q == CHOOSE x \in starts : \A y \in starts : x <= y
                 e == MatchAtoms(s, atoms, q)
             IN  <<<<q, e - 1>>>> \o RegexIntervals(s, atoms, e)

\* item.match(regex) || []
MatchAll(s, ivs) == [k \in 1..Len(ivs) |-> SubSeq(s, ivs[k][1], ivs[k][2])]

\* item.split(regex) for a regex without capture group
SplitParts(s, ivs) ==
    [k \in 1..(Len(ivs) + 1) |->
        SubSeq(s, IF k = 1 THEN 1 ELSE ivs[k - 1][2] + 1,
                  IF k = Len(ivs) + 1 THEN Len(s) ELSE ivs[k][1] - 1)]

\* the regex with [^\s]* for [^\s]+: nothing needs to follow the slashes
UrlMatchAtEmptyTail(s, q) ==
    LET stop(p) == {k \in p..Len(s) : s[k] \in WhiteSpace}
        rest(p) ==
            IF p + 2 <= Len(s) /\ SubSeq(s, p, p + 2) = <<":", "/", "/">>
            THEN IF stop(p + 3) = {} THEN Len(s) + 1
                 ELSE CHOOSE k \in stop(p + 3) : \A j \in stop(p + 3) : k <= j
            ELSE 0
    IN  IF q + 3 <= Len(s) /\ SubSeq(s, q, q + 3) = <<"h", "t", "t", "p">>
        THEN IF q + 4 <= Len(s) /\ s[q + 4] = "s" /\ rest(q + 5) > 0
             THEN rest(q + 5)
             ELSE rest(q + 4)
        ELSE 0

\* /(https?:\/\/[^\s]+)/ matched at position q of s: the position after the
\* match, or 0. The run of non-whitespace is greedy.
UrlMatchAt(s, q) ==
    LET scheme == <<"h", "t", "t", "p">>
        rest(p) ==  \* ":\/\/[^\s]+" from position p
            IF /\ p + 3 <= Len(s)
               /\ SubSeq(s, p, p + 2) = <<":", "/", "/">>
               /\ s[p + 3] \notin WhiteSpace
            THEN LET stop == {k \in (p + 3)..Len(s) : s[k] \in WhiteSpace}
                 IN  IF stop = {} THEN Len(s) + 1
                     ELSE CHOOSE k \in stop : \A j \in stop : k <= j
            ELSE 0
    IN  IF q + 3 <= Len(s) /\ SubSeq(s, q, q + 3) = scheme
        THEN IF q + 4 <= Len(s) /\ s[q + 4] = "s" /\ rest(q + 5) > 0
             THEN rest(q + 5)
             ELSE rest(q + 4)
        ELSE 0

RECURSIVE UrlIntervals(_, _)
\* the matches of the global urlRegex in s from position `from` on
UrlIntervals(s, from) ==
    LET starts == {q \in from..Len(s) : UrlMatchAt(s, q) > q}
    IN  IF starts = {} THEN <<>>
        ELSE LET q == CHOOSE x \in starts : \A y \in starts : x <= y
                 e == UrlMatchAt(s, q)
             IN  <<<<q, e - 1>>>> \o UrlIntervals(s, e)

\* item.split(urlRegex): the capture group puts every match between the parts
UrlSplit(s) ==
    LET ivs == UrlIntervals(s, 1)
        gaps == SplitParts(s, ivs)
        ms == MatchAll(s, ivs)
    IN  [k \in 1..(2 * Len(ivs) + 1) |->
            IF k % 2 = 1 THEN gaps[(k + 1) \div 2] ELSE ms[k \div 2]]

\* urlRegex.test(part) on the shared global regex: the search starts at
\* lastIndex (0-based); a hit moves lastIndex behind the match, a miss resets it.
UrlTest(part, lastIndex) ==
    LET ivs == IF lastIndex > Len(part) THEN <<>> ELSE UrlIntervals(part, lastIndex + 1)
    IN  IF ivs = <<>> THEN [hit |-> FALSE, lastIndex |-> 0]
        ELSE [hit |-> TRUE, lastIndex |-> ivs[1][2]]

----------------------------------------------------------------------------
(* Annotator: entity index, entity pass, URL pass *)

\* the value of a segment's rec field when the segment is no entity link
NoRecord == [none |-> <<>>]

\* the three kinds of inline segment
PlainText(t) == [tag |-> "text", text |-> t, rec |-> NoRecord, href |-> <<>>]
EntityLink(r, t) == [tag |-> "entity", text |-> t, rec |-> r, href |-> <<>>]
ExternalLink(t) == [tag |-> "url", text |-> t, rec |-> NoRecord, href |-> t]

\* the literal placeholder that is never an entity name
OtherName == <<"o", "t", "h", "e", "r">>

\* the condition without the comparison of the id with the current id
AdmittedWithoutIdCheck(r, cur, excl) ==
    /\ DisplayNameOf(r) # <<>>
    /\ ToLowerCase(DisplayNameOf(r)) # <<"o", "t", "h", "e", "r">>

\* the condition without the comparison of the name with 'other'
AdmittedWithPlaceholder(r, cur, excl) ==
    /\ DisplayNameOf(r) # <<>>
    /\ excl => IdOf(r) # cur

\* The forEach condition that admits a record to the index. The activity map
\* of the activity page and the tool map of the tool pages compare the id
\* with the current id (excl); the tool map of the activity page does not.
Admitted(r, cur, excl) ==
    /\ DisplayNameOf(r) # <<>>
    /\ excl => IdOf(r) # cur
    /\ ToLowerCase(DisplayNameOf(r)) # OtherName

RECURSIVE AdmittedNames(_, _, _)
\* sortedNames before the sort: the display names pushed, in list order
AdmittedNames(list, cur, excl) ==
    IF list = <<>> THEN <<>>
    ELSE (IF Admitted(Head(list), cur, excl) THEN <<DisplayNameOf(Head(list))>> ELSE <<>>)
         \o AdmittedNames(Tail(list), cur, excl)

\* a map in which the first record set under a key keeps the slot
MapGetFirst(list, cur, excl, key) ==
    LET hits == {i \in 1..Len(list) :
                    /\ Admitted(list[i], cur, excl)
                    /\ ToLowerCase(DisplayNameOf(list[i])) = key}
    IN  IF hits = {} THEN NoRecord
        ELSE list[CHOOSE i \in hits : \A j \in hits : i <= j]

\* map.get(key): the last admitted record set under the key, or undefined
MapGet(list, cur, excl, key) ==
    LET hits == {i \in 1..Len(list) :
                    /\ Admitted(list[i], cur, excl)
                    /\ ToLowerCase(DisplayNameOf(list[i])) = key}
    IN  IF hits = {} THEN NoRecord
        ELSE list[CHOOSE i \in hits : \A j \in hits : j <= i]

RECURSIVE InsertByLength(_, _)
\* n put into a list sorted by descending length, behind its equals
InsertByLength(sorted, n) ==
    IF sorted = <<>> THEN <<n>>
    ELSE IF Len(n) - Len(Head(sorted)) > 0
         THEN <<n>> \o sorted
         ELSE <<Head(sorted)>> \o InsertByLength(Tail(sorted), n)

RECURSIVE SortByLength(_)
\* names.sort((a, b) => b.length - a.length): stable, longest first
SortByLength(names) ==
    IF names = <<>> THEN <<>>
    ELSE InsertByLength(SortByLength(SubSeq(names, 1, Len(names) - 1)), names[Len(names)])

\* sortedActivityNames / sortedToolNames
SortedNames(list, cur, excl) == SortByLength(AdmittedNames(list, cur, excl))

RECURSIVE LinkPartsDropLast(_, _, _, _)
\* the loop with the test i < matches.length - 1: the last match is not pushed
LinkPartsDropLast(parts, matches, target, i) ==
    IF i > Len(parts) THEN <<>>
    ELSE (IF parts[i] # <<>> THEN <<PlainText(parts[i])>> ELSE <<>>)
         \o (IF i < Len(matches)
             THEN (IF target # NoRecord
                   THEN <<EntityLink(target, matches[i])>>
                   ELSE <<PlainText(matches[i])>>)
             ELSE <<>>)
         \o LinkPartsDropLast(parts, matches, target, i + 1)

RECURSIVE LinkParts(_, _, _, _)
\* the loop "for (let i = 0; i < parts.length; i++)" from index i (1-based) on
LinkParts(parts, matches, target, i) ==
    IF i > Len(parts) THEN <<>>
    ELSE (IF parts[i] # <<>> THEN <<PlainText(parts[i])>> ELSE <<>>)
         \o (IF i <= Len(matches)
             THEN (IF target # NoRecord
                   THEN <<EntityLink(target, matches[i])>>
                   ELSE <<PlainText(matches[i])>>)
             ELSE <<>>)
         \o LinkParts(parts, matches, target, i + 1)

\* the forEach body without the "typeof item === 'string'" test: the text of
\* an element is scanned again
LinkItemRescan(item, name, target) ==
    LET ivs == RegexIntervals(item.text, CompilePattern(EntityRegexSource(name)), 1)
    IN  IF ivs = <<>> THEN <<item>>
        ELSE LinkParts(SplitParts(item.text, ivs), MatchAll(item.text, ivs), target, 1)

\* what result.forEach does to one item for one name: a string is split at the
\* name's matches, an element is kept as it is
LinkItem(item, name, target) ==
    IF item.tag = "text"
    THEN LET ivs == RegexIntervals(item.text, CompilePattern(EntityRegexSource(name)), 1)
         IN  LinkParts(SplitParts(item.text, ivs), MatchAll(item.text, ivs), target, 1)
    ELSE <<item>>

RECURSIVE LinkAll(_, _, _)
\* result.forEach over the whole current result for one name
LinkAll(result, name, target) ==
    IF result = <<>> THEN <<>>
    ELSE LinkItem(Head(result), name, target) \o LinkAll(Tail(result), name, target)

RECURSIVE LinkNames(_, _, _, _, _)
\* sortedNames.forEach: the names are tried in order on the current result
LinkNames(result, names, list, cur, excl) ==
    IF names = <<>> THEN result
    ELSE LinkNames(LinkAll(result, Head(names),
                           MapGet(list, cur, excl, ToLowerCase(Head(names)))),
                   Tail(names), list, cur, excl)

\* processActivityLinks / processToolLinks over the names of one list
processLinks(text, list, cur, excl) ==
    LET names == SortedNames(list, cur, excl)
    IN  IF names = <<>> THEN <<PlainText(text)>>
        ELSE LinkNames(<<PlainText(text)>>, names, list, cur, excl)

\* processActivityLinks of the activity page
processActivityLinks(text, acts, cur) == processLinks(text, acts, cur, TRUE)

\* processToolLinks; excl tells the tool pages (TRUE) from the activity page
processToolLinks(text, tls, cur, excl) == processLinks(text, tls, cur, excl)

RECURSIVE ToolPass(_, _, _, _)
\* withActivityLinks.forEach: the tool pass on every string left
ToolPass(segs, tls, cur, excl) ==
    IF segs = <<>> THEN <<>>
    ELSE (IF Head(segs).tag = "text"
          THEN processToolLinks(Head(segs).text, tls, cur, excl)
          ELSE <<Head(segs)>>)
         \o ToolPass(Tail(segs), tls, cur, excl)

\* a part of the URL pass pushed without the test that it is not empty
UrlPartKeepEmpty(st, part, t) ==
    [segs |-> st.segs \o (IF t.hit THEN <<ExternalLink(part)>> ELSE <<PlainText(part)>>),
     lastIndex |-> t.lastIndex]

\* One part of the URL pass: a part the regex hits becomes a link, any other
\* non-empty part stays text; t is the outcome of urlRegex.test(part).
UrlPart(st, part, t) ==
    [segs |-> st.segs \o (IF t.hit THEN <<ExternalLink(part)>>
                          ELSE IF part # <<>> THEN <<PlainText(part)>>
                          ELSE <<>>),
     lastIndex |-> t.lastIndex]

RECURSIVE UrlParts(_, _, _)
\* parts.forEach of the URL pass from part k on; st holds the segments pushed
\* so far and the lastIndex of the shared urlRegex
UrlParts(parts, k, st) ==
    IF k > Len(parts) THEN st
    ELSE UrlParts(parts, k + 1, UrlPart(st, parts[k], UrlTest(parts[k], st.lastIndex)))

RECURSIVE UrlPass(_, _)
\* finalProcessed.forEach: the URL pass on every string left, an element is
\* pushed as it is
UrlPass(segs, st) ==
    IF segs = <<>> THEN st
    ELSE UrlPass(Tail(segs),
                 IF Head(segs).tag = "text"
                 THEN UrlParts(UrlSplit(Head(segs).text), 1, st)
                 ELSE [st EXCEPT !.segs = Append(@, Head(segs))])

\* the two call sites of the Annotator
ActivityPage == "activityPage"
ToolPage == "toolPage"

\* an entity pass whose activity page stops after the activity names
EntityPassActivitiesOnly(text, site, acts, tls, cur) ==
    IF site = ActivityPage
    THEN processActivityLinks(text, acts, cur)
    ELSE processToolLinks(text, tls, cur, TRUE)

\* the entity pass of formatTextWithLinks: on the activity page the activity
\* names first and then the tool names on what is left; on a tool page the
\* tool names alone
EntityPass(text, site, acts, tls, cur) ==
    IF site = ActivityPage
    THEN ToolPass(processActivityLinks(text, acts, cur), tls, cur, FALSE)
    ELSE processToolLinks(text, tls, cur, TRUE)

RECURSIVE EntityPassOver(_, _, _, _, _)
\* the entity pass over the segments that are still text
EntityPassOver(segs, site, acts, tls, cur) ==
    IF segs = <<>> THEN <<>>
    ELSE (IF Head(segs).tag = "text"
          THEN EntityPass(Head(segs).text, site, acts, tls, cur)
          ELSE <<Head(segs)>>)
         \o EntityPassOver(Tail(segs), site, acts, tls, cur)

\* the two passes in the other order: the URLs of the whole text first, the
\* entity names on what they leave
formatTextWithLinksUrlFirst(text, site, acts, tls, cur, lastIndex) ==
    LET u == UrlPass(<<PlainText(text)>>, [segs |-> <<>>, lastIndex |-> lastIndex])
    IN  [segs |-> EntityPassOver(u.segs, site, acts, tls, cur), lastIndex |-> u.lastIndex]

\* formatTextWithLinks(text), with the lastIndex of the shared urlRegex
formatTextWithLinks(text, site, acts, tls, cur, lastIndex) ==
    UrlPass(EntityPass(text, site, acts, tls, cur),
            [segs |-> <<>>, lastIndex |-> lastIndex])

----------------------------------------------------------------------------
(* Annotator: block splitting *)

\* the test for the dash marker alone
IsListItemDashOnly(trimmed) == StartsWith(trimmed, <<"-", " ">>)

\* the two list markers
IsListItem(trimmed) ==
    \/ StartsWith(trimmed, <<"-", " ">>)
    \/ StartsWith(trimmed, <<"*", " ">>)

\* the length of a list marker, dropped by trimmed.substring(2)
MarkerLen == 2

\* a <div> holding one line and a <ul> holding one <li> per item; key is the
\* line index of the React key (text-i, list-i), -1 for list-final
DivBlock(i, segs) == [kind |-> "div", key |-> i, items |-> <<segs>>]
ListBlock(i, lis) == [kind |-> "ul", key |-> i, items |-> lis]

\* one <li> pushed: f is formatTextWithLinks(item)
FormatItem(st, f) == [items |-> Append(st.items, f.segs), lastIndex |-> f.lastIndex]

RECURSIVE FormatItems(_, _, _)
\* currentList.map(item => formatTextWithLinks(item)), in item order; st holds
\* the items mapped so far and the lastIndex of urlRegex
FormatItems(list, ctx, st) ==
    IF list = <<>> THEN st
    ELSE FormatItems(Tail(list), ctx,
                     FormatItem(st, formatTextWithLinks(Head(list), ctx.site, ctx.acts,
                                                        ctx.tls, ctx.cur, st.lastIndex)))

\* elements.push(<ul>) and currentList = []; lis is the mapped currentList
PushList(st, key, lis) ==
    [elements |-> Append(st.elements, ListBlock(key, lis.items)),
     currentList |-> <<>>,
     lastIndex |-> lis.lastIndex]

\* "if (currentList.length > 0)": the pending list becomes a <ul> block
Flush(st, key, ctx) ==
    IF Len(st.currentList) > 0
    THEN PushList(st, key, FormatItems(st.currentList, ctx,
                                       [items |-> <<>>, lastIndex |-> st.lastIndex]))
    ELSE st

\* elements.push(<div>) of a non-empty line; f is formatTextWithLinks(line)
PushDiv(st, i, f) ==
    [st EXCEPT !.elements = Append(@, DivBlock(i, f.segs)), !.lastIndex = f.lastIndex]

\* a line that is no list item, after the flush: it is pushed when it is not
\* blank or nothing was pushed yet, an empty line as one no-break space
TextLine(st, i, line, trimmed, ctx) ==
    IF trimmed # <<>> \/ Len(st.elements) = 0
    THEN IF line # <<>>
         THEN PushDiv(st, i, formatTextWithLinks(line, ctx.site, ctx.acts, ctx.tls,
                                                 ctx.cur, st.lastIndex))
         ELSE [st EXCEPT !.elements = Append(@, DivBlock(i, <<PlainText(<<NBSP>>)>>))]
    ELSE st

\* the loop body for line i (0-based)
LineStep(st, i, line, trimmed, ctx) ==
    IF IsListItem(trimmed)
    THEN [st EXCEPT !.currentList = Append(@, Substring(trimmed, MarkerLen))]
    ELSE TextLine(Flush(st, i, ctx), i, line, trimmed, ctx)

RECURSIVE BlockLoop(_, _, _, _)
\* The loop over lines from index i (0-based) on, and the flush after it; st is
\* the loop state: elements so far, pending currentList, urlRegex.lastIndex.
BlockLoop(lines, i, st, ctx) ==
    IF i >= Len(lines)
    THEN Flush(st, -1, ctx).elements
    ELSE BlockLoop(lines, i + 1,
                   LineStep(st, i, lines[i + 1], Trim(lines[i + 1]), ctx), ctx)

\* children.split('\n') throws a TypeError when children is undefined
SplitThrows(text) == text = Undefined

\* the value of a list prop that is not passed (undefined), and the default
\* value [] that the parameter list gives it
NoList == <<[undefined |-> <<>>]>>
DefaultList(list) == IF list = NoList THEN <<>> ELSE list

\* the component without "if (!children) return null"
FormattedTextNoGuard(text, site, acts, tls, cur) ==
    IF SplitThrows(text)
    THEN [isNull |-> FALSE, elements |-> <<>>, threw |-> TRUE]
    ELSE [isNull |-> FALSE,
          elements |-> BlockLoop(SplitOn(text, "\n"), 0,
                                 [elements |-> <<>>, currentList |-> <<>>, lastIndex |-> 0],
                                 [site |-> site, acts |-> acts, tls |-> tls, cur |-> cur]),
          threw |-> FALSE]

\* FormattedText: null for a missing or empty text, else the blocks
FormattedText(text, site, acts, tls, cur) ==
    IF text = Undefined \/ text = <<>>
    THEN [isNull |-> TRUE, elements |-> <<>>, threw |-> FALSE]
    ELSE IF SplitThrows(text)
    THEN [isNull |-> FALSE, elements |-> <<>>, threw |-> TRUE]
    ELSE [isNull |-> FALSE,
          elements |-> BlockLoop(SplitOn(text, "\n"), 0,
                                 [elements |-> <<>>, currentList |-> <<>>, lastIndex |-> 0],
                                 [site |-> site, acts |-> acts, tls |-> tls, cur |-> cur]),
          threw |-> FALSE]

----------------------------------------------------------------------------
(* Ranker: searchWithScoring and calculateItemScore *)

\* the value of a digit character in the radix, -1 when it is no digit of it
DigitValue(c, radix) ==
    LET d == {i \in 1..10 : Digits[i] = c}
        h == {i \in 1..6 : LowerLetters[i] = ToLowerChar(c)}
    IN  IF d # {} THEN (CHOOSE i \in d : TRUE) - 1
        ELSE IF radix = 16 /\ h # {} THEN (CHOOSE i \in h : TRUE) + 9
        ELSE -1

RECURSIVE DigitsValue(_, _, _)
\* the value of the longest prefix of s made of digits of the radix, from acc
DigitsValue(s, radix, acc) ==
    IF s = <<>> \/ DigitValue(Head(s), radix) < 0 THEN acc
    ELSE DigitsValue(Tail(s), radix, acc * radix + DigitValue(Head(s), radix))

\* parseInt(x): leading white space is skipped, a sign is read, 0x or 0X selects
\* radix 16, the longest run of digits is the value; NaN when there is no digit
\* or x is undefined
parseInt(x) ==
    LET s0 == TrimStart(x)
        neg == s0 # <<>> /\ Head(s0) = "-"
        s1 == IF s0 # <<>> /\ Head(s0) \in {"+", "-"} THEN Tail(s0) ELSE s0
        hex == Len(s1) >= 2 /\ s1[1] = "0" /\ s1[2] \in {"x", "X"}
        s2 == IF hex THEN SubSeq(s1, 3, Len(s1)) ELSE s1
        radix == IF hex THEN 16 ELSE 10
    IN  IF x = Undefined \/ s2 = <<>> \/ DigitValue(Head(s2), radix) < 0
        THEN [nan |-> TRUE, val |-> 0]
        ELSE [nan |-> FALSE,
              val |-> (IF neg THEN -1 ELSE 1) * DigitsValue(s2, radix, 0)]

\* parseInt(item.id) || 0
NumId(item) == IF parseInt(IdOf(item)).nan THEN 0 ELSE parseInt(IdOf(item)).val

\* the tertiary fields
searchableFields ==
    << "Long Description", "Benefits", "Parent Skills", "Child Techniques",
       "Alternatives", "Sub-techniques", "Tools", "Written Guide - Intro",
       "Written Guide - Health Routine", "Written Guide - Target Audience",
       "Written Guide - Issues", "Written Guide - Setup",
       "Written Guide - Walkthrough", "Written Guide - Tips and Tricks" >>

\* the points of the tiers
ExactPoints == 1000
PrefixPoints == 500
NamePoints == 100
AliasPoints == 50
ShortPoints == 25
FieldPoints == 10

\* one if on the two name fields: any name that holds the query scores the
\* points of the lowest name tier
NameScoreFlat(item, q) ==
    IF \/ Includes(ToLowerCase(Field(item, "Display Name")), q)
       \/ Includes(ToLowerCase(Field(item, "code name")), q)
    THEN NamePoints ELSE 0

\* three independent ifs on the two name fields: the tiers add up
NameScoreSummed(item, q) ==
    LET displayName == ToLowerCase(Field(item, "Display Name"))
        codeName == ToLowerCase(Field(item, "code name"))
    IN  (IF displayName = q \/ codeName = q THEN ExactPoints ELSE 0)
        + (IF StartsWith(displayName, q) \/ StartsWith(codeName, q) THEN PrefixPoints ELSE 0)
        + (IF Includes(displayName, q) \/ Includes(codeName, q) THEN NamePoints ELSE 0)

\* the if / else if / else if on the two name fields
NameScore(item, q) ==
    LET displayName == ToLowerCase(Field(item, "Display Name"))
        codeName == ToLowerCase(Field(item, "code name"))
    IN  IF displayName = q \/ codeName = q THEN ExactPoints
        ELSE IF StartsWith(displayName, q) \/ StartsWith(codeName, q) THEN PrefixPoints
        ELSE IF Includes(displayName, q) \/ Includes(codeName, q) THEN NamePoints
        ELSE 0

\* the two ifs on the secondary fields
SecondaryScore(item, q) ==
    (IF Includes(ToLowerCase(Field(item, "Aliases")), q) THEN AliasPoints ELSE 0)
    + (IF Includes(ToLowerCase(Field(item, "Short Description")), q) THEN ShortPoints ELSE 0)

\* the loop over searchableFields adding the alias points for every field
TertiaryScoreHeavy(item, q) ==
    AliasPoints * Cardinality({k \in 1..Len(searchableFields) :
                      Includes(ToLowerCase(Field(item, searchableFields[k])), q)})

\* the loop over searchableFields
TertiaryScore(item, q) ==
    FieldPoints * Cardinality({k \in 1..Len(searchableFields) :
                      Includes(ToLowerCase(Field(item, searchableFields[k])), q)})

\* calculateItemScore(item, query)
calculateItemScore(item, q) ==
    NameScore(item, q) + SecondaryScore(item, q) + TertiaryScore(item, q)

\* x.toLowerCase() throws a TypeError when x is undefined
LowerThrows(x) == x = Undefined

\* calculateItemScore throws: the receiver of one of its toLowerCase calls,
\* on the two names, the two secondary fields or a searchable field, is undefined
ScoreThrows(item) ==
    \/ \E f \in {"Display Name", "code name", "Aliases", "Short Description"} :
          LowerThrows(Field(item, f))
    \/ \E k \in 1..Len(searchableFields) : LowerThrows(Field(item, searchableFields[k]))

\* the comparator with the tie broken by descending id
CompareIdDescending(a, b) ==
    IF a.score # b.score
    THEN b.score - a.score
    ELSE NumId(b.item) - NumId(a.item)

\* the comparator of scoredItems.sort
Compare(a, b) ==
    IF a.score # b.score
    THEN b.score - a.score
    ELSE NumId(a.item) - NumId(b.item)

RECURSIVE InsertScoredBeforeTies(_, _)
\* x put before the first element it does not compare above: a sort that
\* turns the order of equal elements round
InsertScoredBeforeTies(sorted, x) ==
    IF sorted = <<>> THEN <<x>>
    ELSE IF Compare(x, Head(sorted)) <= 0
         THEN <<x>> \o sorted
         ELSE <<Head(sorted)>> \o InsertScoredBeforeTies(Tail(sorted), x)

RECURSIVE InsertScored(_, _)
\* x put into a sorted list before the first element it compares below
InsertScored(sorted, x) ==
    IF sorted = <<>> THEN <<x>>
    ELSE IF Compare(x, Head(sorted)) < 0
         THEN <<x>> \o sorted
         ELSE <<Head(sorted)>> \o InsertScored(Tail(sorted), x)

RECURSIVE SortScored(_)
\* Array.prototype.sort with the comparator: a stable sort
SortScored(l) ==
    IF l = <<>> THEN <<>>
    ELSE InsertScored(SortScored(SubSeq(l, 1, Len(l) - 1)), l[Len(l)])

\* every item pushed with its score, whatever the score
ScoredItemsAll(list, q) ==
    [k \in 1..Len(list) |-> [item |-> list[k], score |-> calculateItemScore(list[k], q)]]

RECURSIVE ScoredItems(_, _)
\* the loop that pushes every item of positive score with its score
ScoredItems(list, q) ==
    IF list = <<>> THEN <<>>
    ELSE (IF calculateItemScore(Head(list), q) > 0
          THEN <<[item |-> Head(list), score |-> calculateItemScore(Head(list), q)]>>
          ELSE <<>>)
         \o ScoredItems(Tail(list), q)

\* the query trimmed but left in its letter case
TrimmedQueryNoLower(q) == Trim(q)

\* the query lower-cased but not trimmed
TrimmedQueryNoTrim(q) == ToLowerCase(q)

\* query.trim().toLowerCase()
TrimmedQuery(q) == ToLowerCase(Trim(q))

\* searchWithScoring throws: the scoring of one of the items does, which is
\* reached only behind the early return (parseInt and || 0 never throw)
SearchThrows(list, q) ==
    TrimmedQuery(q) # <<>> /\ \E k \in 1..Len(list) : ScoreThrows(list[k])

\* the items array after a search that sorts it in place, items.sort(...),
\* instead of sorting the scored list
ItemsSortedInPlace(list, q) ==
    IF TrimmedQuery(q) = <<>> THEN list
    ELSE LET sorted == SortScored(ScoredItemsAll(list, TrimmedQuery(q)))
         IN  [k \in 1..Len(sorted) |-> sorted[k].item]

\* The items array after the call: the function reads it in the for-of loop
\* and never assigns to it, to an element or to a field of a record; sort is
\* called on scoredItems and map builds a new array.
ItemsAfterSearch(list, q) == list

\* the search without the early return for an empty query
searchWithScoringNoEarlyReturn(list, q) ==
    LET sorted == SortScored(ScoredItems(list, TrimmedQuery(q)))
    IN  [k \in 1..Len(sorted) |-> sorted[k].item]

\* searchWithScoring(items, query)
searchWithScoring(list, q) ==
    IF TrimmedQuery(q) = <<>>
    THEN list
    ELSE LET sorted == SortScored(ScoredItems(list, TrimmedQuery(q)))
         IN  [k \in 1..Len(sorted) |-> sorted[k].item]

----------------------------------------------------------------------------
(* Inputs *)

\* all sequences over S of length at most n
SeqsUpTo(S, n) == UNION {[1..k -> S] : k \in 0..n}

RECURSIVE Sublists(_)
\* the order-preserving sublists of a list
Sublists(l) ==
    IF l = <<>> THEN {<<>>}
    ELSE LET rest == Sublists(Tail(l))
         IN  rest \cup {<<Head(l)>> \o r : r \in rest}

\* r with field f set to v, or without it when v is undefined
WithField(r, f, v) == IF v = Undefined THEN r ELSE (f :> v) @@ r

Activities == <<"A", "c", "t", "i", "v", "i", "t", "i", "e", "s">>
Tools == <<"T", "o", "o", "l", "s">>

\* a catalog record of the Annotator
Entity(library, id, displayName, codeName) ==
    WithField(WithField(WithField([Library |-> library],
        "id", id), "Display Name", displayName), "code name", codeName)

\* texts: the concatenations of at most n pieces
TextsOf(pieces, n) == {Concat(ps) : ps \in SeqsUpTo(pieces, n)}

(* Block splitting inputs: lines, list markers, blanks, one entity name *)
MaxBlockPieces == 5
BlockPieces ==
    { <<"\n">>, <<"-", " ">>, <<"*", " ">>, <<" ">>, <<"G", "o">>, <<"-", " ", "x", "\n">> }
BlockActivities == << Entity(Activities, <<"1">>, <<"G", "o">>, Undefined) >>
BlockTools == << Entity(Tools, <<"2">>, <<"g", "o">>, Undefined) >>

(* Linking inputs: names that contain one another, in both letter cases,    *)
(* with and without punctuation at their end                                 *)
MaxLinkPieces == 3
LinkPieces == { <<"G", "o", " ", "P", "r", "o">>, <<"g", "o">>, <<" ">>,
                <<"P", "r", "o", "+">>, <<"x">> }
ActivityMaster ==
    << Entity(Activities, <<"1">>, <<"G", "o">>, Undefined),
       Entity(Activities, <<"2">>, <<"G", "o", " ", "P", "r", "o">>, <<"g", "p">>) >>
ToolMaster ==
    << Entity(Tools, <<"1">>, <<"P", "r", "o">>, Undefined),
       Entity(Tools, <<"2">>, <<>>, <<"P", "r", "o", "+">>),
       Entity(Tools, <<"3">>, <<"G", "O", " ", "P", "R", "O">>, Undefined) >>
CurrentIds == { <<"1">>, <<"9">> }

(* Placeholder inputs: records named "other" in several letter cases, by     *)
(* Display Name and by code name, a record without a name, and names that    *)
(* hold the word                                                             *)
OtherPieces ==
    { <<"o", "t", "h", "e", "r">>, <<"O", "t", "h", "e", "r">>, <<" ">>, <<"G", "o">>,
      <<"x">> }
OtherActivities ==
    << Entity(Activities, <<"1">>, <<"O", "t", "h", "e", "r">>, <<"G", "o">>),
       Entity(Activities, <<"2">>, Undefined, <<"O", "T", "H", "E", "R">>),
       Entity(Activities, <<"3">>, <<"O", "t", "h", "e", "r", " ", "G", "o">>, Undefined) >>
OtherTools ==
    << Entity(Tools, <<"1">>, <<"o", "t", "h", "e", "r">>, Undefined),
       Entity(Tools, <<"2">>, <<>>, <<>>),
       Entity(Tools, <<"3">>, <<"G", "o">>, Undefined) >>

(* Collision inputs: records of one list whose names differ in letter case   *)
(* only, one of them named by its code name                                  *)
CollidePieces == { <<"G", "o">>, <<"g", "o">>, <<" ">>, <<"P", "r", "o">>, <<"x">> }
CollideActivities ==
    << Entity(Activities, <<"1">>, <<"G", "o">>, Undefined),
       Entity(Activities, <<"2">>, <<"G", "O">>, Undefined),
       Entity(Activities, <<"3">>, Undefined, <<"g", "o">>) >>
CollideTools ==
    << Entity(Tools, <<"1">>, <<"P", "r", "o">>, Undefined),
       Entity(Tools, <<"2">>, <<"p", "r", "o">>, Undefined) >>
CollideIds == { <<"2">>, <<"3">>, <<"9">> }

(* Ranker inputs *)
MaxItems == 2
Car == <<"c", "a", "r">>
ACar == <<"a", " ", "C", "A", "R">>

\* a record of the Ranker; the first n tertiary fields hold the word
Item(id, displayName, codeName, aliases, short, n) ==
    LET base == WithField(WithField(WithField(WithField(WithField(
                    [Library |-> Activities],
                    "id", id), "Display Name", displayName), "code name", codeName),
                    "Aliases", aliases), "Short Description", short)
    IN  [f \in {searchableFields[k] : k \in 1..n} |-> ACar] @@ base

ItemPool ==
    { Item(<<"3">>, <<"C", "a", "r">>, Undefined, Undefined, Undefined, 0),
      Item(<<"1">>, <<"c", "a", "r">>, <<>>, <<>>, <<>>, 0),
      Item(<<"0", "1">>, <<"B", "u", "s">>, <<"C", "A", "R">>, Undefined, Undefined, 0),
      Item(<<"2">>, <<"C", "a", "r", "t">>, Undefined, Car, ACar, 14),
      Item(<<"x">>, <<"c", "a", "r", "t">>, Undefined, Undefined, Undefined, 0),
      Item(Undefined, <<"S", "c", "a", "r">>, Undefined, Car, ACar, 14),
      Item(<<"2">>, <<>>, <<"s", "c", "a", "r">>, Undefined, Undefined, 0),
      Item(<<"1">>, <<"B", "u", "s">>, Undefined, Car, ACar, 14),
      Item(<<"3">>, <<"B", "u", "s">>, Undefined, Undefined, Undefined, 1),
      Item(<<"1">>, <<"B", "u", "s">>, Undefined, Undefined, Undefined, 0),
      Item(Undefined, Undefined, Undefined, Undefined, Undefined, 0) }

Queries == { <<>>, <<" ">>, Car, <<" ", "C", "A", "R", " ">>, <<"c", "a">>, <<"z">> }

(* URL inputs: both schemes, a character that can follow them, white space, *)
(* and a word that is an entity name                                         *)
MaxUrlPieces == 5
UrlPieces ==
    { <<"h", "t", "t", "p", ":", "/", "/">>, <<"h", "t", "t", "p", "s", ":", "/", "/">>,
      <<"s">>, <<" ">>, <<"G", "o">> }

(* Inputs of interleaved calls: record lists with a tie and a record of score *)
(* 0, texts with lines and lists                                              *)
ConcRecords ==
    { Item(<<"3">>, <<"C", "a", "r">>, Undefined, Undefined, Undefined, 0),
      Item(<<"1">>, <<"c", "a", "r">>, <<>>, <<>>, <<>>, 0),
      Item(<<"1">>, <<"B", "u", "s">>, Undefined, Undefined, Undefined, 0) }
ConcLists == SeqsUpTo(ConcRecords, 2)
ConcQueries == { <<>>, Car }
ConcTexts ==
    { <<>>, <<"G", "o">>, <<"-", " ", "G", "o", "\n", "g", "o">>,
      <<"G", "o", "\n", "\n", "*", " ", "g", "o">> }

(* Scoring inputs: one record whose fields hold the word in every position,   *)
(* in both letter cases, or are missing, and a lower-cased trimmed query      *)
ScoreNames ==
    { Undefined, <<>>, Car, <<"C", "a", "r">>, <<"C", "a", "r", "t">>, ACar,
      <<"B", "u", "s">> }
ScoreCodes == { Undefined, <<"C", "A", "R">>, <<"c", "a", "r", "s">>, <<"o", "s", "c", "a", "r">> }
ScoreAliases == { Undefined, ACar }
ScoreShorts == { Undefined, ACar, <<"b", "u", "s">> }
ScoreFieldCounts == { 0, 1, 3, Len(searchableFields) }

\* a record with a field outside the scored ones that holds the word
ScoreItem(displayName, codeName, aliases, short, n) ==
    ("Notes" :> Car) @@ Item(<<"1">>, displayName, codeName, aliases, short, n)

ScoreItems ==
    { ScoreItem(d, c, a, sh, n) :
        d \in ScoreNames, c \in ScoreCodes, a \in ScoreAliases, sh \in ScoreShorts,
        n \in ScoreFieldCounts }

ScoreQueries == { Car, <<"c", "a">>, <<"a", " ", "c", "a", "r">>, <<"r">>, <<"z">> }

----------------------------------------------------------------------------
(* The state machine: Init draws the inputs of one call, the action is the call *)

NoAnnotatorInput ==
    /\ children = <<>> /\ activities = <<>> /\ tools = <<>> /\ currentId = Undefined

NoRankerInput == items = <<>> /\ query = <<>>

\* localStorage.getItem of a key that has no item
NoItem == <<"NULL">>

\* the keys of the application
STARRED_STORAGE_KEY == "refold-starred-activities"
STORAGE_KEY(type) ==
    IF type = "tools" THEN "refold-intro-dismissed-tools"
    ELSE "refold-intro-dismissed-activities"
StorageKeys == {STARRED_STORAGE_KEY, STORAGE_KEY("activities"), STORAGE_KEY("tools")}

\* no component is mounted and the storage is empty
NoUi ==
    /\ localStorage = [k \in StorageKeys |-> NoItem]
    /\ provider = [mounted |-> FALSE]
    /\ modal = [mounted |-> FALSE]

NoResult ==
    /\ elements = <<>> /\ isNull = FALSE /\ ranked = <<>> /\ itemScore = 0
    /\ threw = FALSE /\ calls = <<>> /\ pc = "start"
    /\ NoUi

\* a text of lines, list items and blanks before its rendering
InitBlocks ==
    /\ children \in TextsOf(BlockPieces, MaxBlockPieces)
    /\ activities = BlockActivities
    /\ tools = BlockTools
    /\ currentId = Undefined
    /\ op \in {ActivityPage, ToolPage}
    /\ NoRankerInput /\ NoResult

\* a text with entity names before its rendering on either page
InitLink ==
    /\ children \in TextsOf(LinkPieces, MaxLinkPieces)
    /\ op \in {ActivityPage, ToolPage}
    /\ activities \in (IF op = ActivityPage THEN Sublists(ActivityMaster) ELSE {<<>>})
    /\ tools \in Sublists(ToolMaster)
    /\ currentId \in CurrentIds
    /\ NoRankerInput /\ NoResult

\* a line with URLs and an entity name before its rendering on either page
InitUrl ==
    /\ children \in TextsOf(UrlPieces, MaxUrlPieces)
    /\ activities = BlockActivities
    /\ tools = BlockTools
    /\ currentId = Undefined
    /\ op \in {ActivityPage, ToolPage}
    /\ NoRankerInput /\ NoResult

\* a line with the word "other" and lists with records named so
InitOther ==
    /\ children \in TextsOf(OtherPieces, MaxLinkPieces)
    /\ op \in {ActivityPage, ToolPage}
    /\ activities \in (IF op = ActivityPage THEN Sublists(OtherActivities) ELSE {<<>>})
    /\ tools \in Sublists(OtherTools)
    /\ currentId = <<"9">>
    /\ NoRankerInput /\ NoResult

\* a line with names that several records of a list share
InitCollide ==
    /\ children \in TextsOf(CollidePieces, MaxLinkPieces)
    /\ op \in {ActivityPage, ToolPage}
    /\ activities \in (IF op = ActivityPage THEN Sublists(CollideActivities) ELSE {<<>>})
    /\ tools \in Sublists(CollideTools)
    /\ currentId \in CollideIds
    /\ NoRankerInput /\ NoResult

\* a text that may be empty or absent, lists and an id that may be absent
InitAbsent ==
    /\ children \in {Undefined} \cup TextsOf(LinkPieces, 1)
    /\ op \in {ActivityPage, ToolPage}
    /\ activities \in (IF op = ActivityPage
                       THEN {NoList} \cup Sublists(ActivityMaster) ELSE {<<>>})
    /\ tools \in {NoList} \cup Sublists(ToolMaster)
    /\ currentId \in {Undefined} \cup CurrentIds
    /\ NoRankerInput /\ NoResult

\* a record list and a query before the search
InitRank ==
    /\ items \in SeqsUpTo(ItemPool, MaxItems)
    /\ query \in Queries
    /\ op = "search"
    /\ NoAnnotatorInput /\ NoResult

\* one record and a query as searchWithScoring hands them to calculateItemScore
InitScore ==
    /\ items \in {<<r>> : r \in ScoreItems}
    /\ query \in ScoreQueries
    /\ op = "score"
    /\ NoAnnotatorInput /\ NoResult

\* a call of the Ranker and a call of the Annotator before their first step:
\* the arguments, the position, and the local variables not yet assigned
RankCall(list, q) ==
    [kind |-> "rank", items |-> list, query |-> q,
     site |-> "", text |-> <<>>, acts |-> <<>>, tls |-> <<>>, cur |-> Undefined,
     pc |-> "start", i |-> 0, scoredItems |-> <<>>, lines |-> <<>>,
     st |-> [elements |-> <<>>, currentList |-> <<>>, lastIndex |-> 0],
     isNull |-> FALSE, out |-> <<>>, overlapped |-> FALSE]
AnnotateCall(site, text, acts, tls, cur) ==
    [RankCall(<<>>, <<>>) EXCEPT !.kind = "annotate", !.site = site, !.text = text,
                                 !.acts = acts, !.tls = tls, !.cur = cur]

\* the calls that run interleaved
Slots == {1, 2}

\* two calls, each of either engine, on inputs of their own
InitConcurrent ==
    /\ calls \in [Slots -> {RankCall(l, q) : l \in ConcLists, q \in ConcQueries}
                         \cup {AnnotateCall(s, t, BlockActivities, BlockTools, Undefined) :
                                  s \in {ActivityPage, ToolPage}, t \in ConcTexts}]
    /\ op = "concurrent"
    /\ NoAnnotatorInput /\ NoRankerInput
    /\ elements = <<>> /\ isNull = FALSE /\ ranked = <<>> /\ itemScore = 0
    /\ threw = FALSE /\ pc = "start"
    /\ NoUi

\* <FormattedText activities tools currentActivityId> of the activity page
RenderActivityPage ==
    /\ pc = "start" /\ op = ActivityPage
    /\ LET r == FormattedText(children, ActivityPage, DefaultList(activities),
                              DefaultList(tools), currentId)
       IN  elements' = r.elements /\ isNull' = r.isNull /\ threw' = r.threw
    /\ pc' = "done"
    /\ UNCHANGED <<children, activities, tools, currentId, items, query, ranked, itemScore, op,
                   calls>>
    /\ UNCHANGED uiVars

\* <FormattedText tools currentToolId> of the tools list and the tool detail page
RenderToolPage ==
    /\ pc = "start" /\ op = ToolPage
    /\ LET r == FormattedText(children, ToolPage, <<>>, DefaultList(tools), currentId)
       IN  elements' = r.elements /\ isNull' = r.isNull /\ threw' = r.threw
    /\ pc' = "done"
    /\ UNCHANGED <<children, activities, tools, currentId, items, query, ranked, itemScore, op,
                   calls>>
    /\ UNCHANGED uiVars

\* searchWithScoring(items, query)
Search ==
    /\ pc = "start" /\ op = "search"
    /\ threw' = SearchThrows(items, query)
    /\ ranked' = IF SearchThrows(items, query) THEN <<>> ELSE searchWithScoring(items, query)
    /\ items' = ItemsAfterSearch(items, query)
    /\ pc' = "done"
    /\ UNCHANGED <<children, activities, tools, currentId, elements, isNull, query,
                   itemScore, op,
                   calls>>
    /\ UNCHANGED uiVars

\* calculateItemScore(item, trimmedQuery)
Score ==
    /\ pc = "start" /\ op = "score"
    /\ threw' = ScoreThrows(items[1])
    /\ itemScore' = IF ScoreThrows(items[1]) THEN 0 ELSE calculateItemScore(items[1], query)
    /\ pc' = "done"
    /\ UNCHANGED <<children, activities, tools, currentId, elements, isNull, items, query,
                   ranked, op, calls>>
    /\ UNCHANGED uiVars

\* all calls use the one copy of variables declared at module level: that of slot 1
HomeShared(c) == 1

\* The call in whose scope the local variables of call c live: c itself. The
\* scored list, the element list, the pending list and urlRegex are declared
\* inside the function body, so every call has its own.
Home(c) == c

\* a step of call c, taken while another call is between its first and last step
Step(c, upd) ==
    /\ calls[c].pc # "done"
    /\ calls' = [d \in Slots |->
                   IF d = c
                   THEN [upd[d] EXCEPT !.overlapped =
                            @ \/ \E e \in Slots \ {c} : calls[e].pc \notin {"start", "done"}]
                   ELSE upd[d]]
    /\ UNCHANGED <<children, activities, tools, currentId, elements, isNull, items, query,
                   ranked, itemScore, threw, op, pc>>
    /\ UNCHANGED uiVars

\* searchWithScoring up to the loop: the early return, or the new scored list
RankStart(c) ==
    /\ calls[c].kind = "rank" /\ calls[c].pc = "start"
    /\ IF TrimmedQuery(calls[c].query) = <<>>
       THEN Step(c, [calls EXCEPT ![c].out = calls[c].items, ![c].pc = "done"])
       ELSE Step(c, [calls EXCEPT ![Home(c)].scoredItems = <<>>,
                                  ![c].i = 1, ![c].pc = "loop"])

\* one turn of "for (const item of items)"
RankItem(c) ==
    /\ calls[c].kind = "rank" /\ calls[c].pc = "loop" /\ calls[c].i <= Len(calls[c].items)
    /\ Step(c, [calls EXCEPT
                  ![Home(c)].scoredItems =
                      @ \o ScoredItems(<<calls[c].items[calls[c].i]>>,
                                       TrimmedQuery(calls[c].query)),
                  ![c].i = calls[c].i + 1])

\* scoredItems.sort(...) and the returned scoredItems.map(...)
RankSort(c) ==
    /\ calls[c].kind = "rank" /\ calls[c].pc = "loop" /\ calls[c].i > Len(calls[c].items)
    /\ Step(c, [calls EXCEPT
                  ![c].out = [k \in 1..Len(calls[Home(c)].scoredItems) |->
                                 SortScored(calls[Home(c)].scoredItems)[k].item],
                  ![c].pc = "done"])

\* the props of call c as the linking functions of its closure see them
CtxOf(c) ==
    [site |-> calls[c].site,
     acts |-> IF calls[c].site = ActivityPage THEN calls[c].acts ELSE <<>>,
     tls |-> calls[c].tls, cur |-> calls[c].cur]

\* FormattedText up to the loop: the null return, or the split into lines with
\* new empty elements and currentList
AnnotateStart(c) ==
    /\ calls[c].kind = "annotate" /\ calls[c].pc = "start"
    /\ IF calls[c].text = Undefined \/ calls[c].text = <<>>
       THEN Step(c, [calls EXCEPT ![c].isNull = TRUE, ![c].pc = "done"])
       ELSE Step(c, [calls EXCEPT
                       ![Home(c)].st = [elements |-> <<>>, currentList |-> <<>>,
                                        lastIndex |-> 0],
                       ![c].lines = SplitOn(calls[c].text, "\n"),
                       ![c].i = 0, ![c].pc = "lines"])

\* one turn of the loop over lines
AnnotateLine(c) ==
    /\ calls[c].kind = "annotate" /\ calls[c].pc = "lines"
    /\ calls[c].i < Len(calls[c].lines)
    /\ Step(c, [calls EXCEPT
                  ![Home(c)].st = LineStep(@, calls[c].i, calls[c].lines[calls[c].i + 1],
                                           Trim(calls[c].lines[calls[c].i + 1]), CtxOf(c)),
                  ![c].i = calls[c].i + 1])

\* the flush behind the loop and the return of the elements
AnnotateFlush(c) ==
    /\ calls[c].kind = "annotate" /\ calls[c].pc = "lines"
    /\ calls[c].i >= Len(calls[c].lines)
    /\ Step(c, [calls EXCEPT
                  ![c].out = Flush(calls[Home(c)].st, -1, CtxOf(c)).elements,
                  ![c].pc = "done"])

NextConcurrent ==
    \E c \in Slots :
        \/ RankStart(c) \/ RankItem(c) \/ RankSort(c)
        \/ AnnotateStart(c) \/ AnnotateLine(c) \/ AnnotateFlush(c)

NextAnnotator == RenderActivityPage \/ RenderToolPage
NextRanker == Search
NextScore == Score

SpecBlocks == InitBlocks /\ [][NextAnnotator]_vars
SpecLink == InitLink /\ [][NextAnnotator]_vars
SpecConcurrent == InitConcurrent /\ [][NextConcurrent]_vars
SpecUrl == InitUrl /\ [][NextAnnotator]_vars
SpecOther == InitOther /\ [][NextAnnotator]_vars
SpecCollide == InitCollide /\ [][NextAnnotator]_vars
SpecAbsent == InitAbsent /\ [][NextAnnotator]_vars
SpecRank == InitRank /\ [][NextRanker]_vars
SpecScore == InitScore /\ [][NextScore]_vars

----------------------------------------------------------------------------
(* StarredProvider: the starred list kept in component state and in storage *)

Quote == "\""

RECURSIVE JoinQuoted(_)
\* the elements of an array of strings as JSON.stringify writes them
JoinQuoted(ids) ==
    IF ids = <<>> THEN <<>>
    ELSE <<Quote>> \o Head(ids) \o <<Quote>>
         \o (IF Tail(ids) = <<>> THEN <<>> ELSE <<",">> \o JoinQuoted(Tail(ids)))

\* JSON.stringify of an array of strings without characters to escape
JSONStringify(ids) == <<"[">> \o JoinQuoted(ids) \o <<"]">>

\* a JSON string literal without escapes
IsJSONString(part) ==
    /\ Len(part) >= 2 /\ part[1] = Quote /\ part[Len(part)] = Quote
    /\ \A i \in 2..(Len(part) - 1) : part[i] # Quote

\* JSON.parse of the stored strings of StoredValues: an array of string
\* literals, the empty object, or a text that is no JSON and makes it throw
JSONParse(s) ==
    IF s = <<"{", "}">>
    THEN [throws |-> FALSE, isArray |-> FALSE, value |-> <<>>]
    ELSE IF Len(s) >= 2 /\ s[1] = "[" /\ s[Len(s)] = "]"
    THEN LET inner == SubSeq(s, 2, Len(s) - 1)
             parts == IF inner = <<>> THEN <<>> ELSE SplitOn(inner, ",")
         IN  IF \A k \in 1..Len(parts) : IsJSONString(parts[k])
             THEN [throws |-> FALSE, isArray |-> TRUE,
                   value |-> [k \in 1..Len(parts) |->
                                SubSeq(parts[k], 2, Len(parts[k]) - 1)]]
             ELSE [throws |-> TRUE, isArray |-> FALSE, value |-> <<>>]
    ELSE [throws |-> TRUE, isArray |-> FALSE, value |-> <<>>]

\* the updater of toggleStar: the id taken out of the list, or put at its end
Toggled(prev, activityId) ==
    IF activityId \in Range(prev)
    THEN SelectSeq(prev, LAMBDA id : id # activityId)
    ELSE Append(prev, activityId)

\* the queued state updates
SetStarredIds(ids) == [kind |-> "setStarredIds", ids |-> ids, id |-> <<>>]
ToggleUpdate(activityId) == [kind |-> "toggle", ids |-> <<>>, id |-> activityId]
SetIsLoaded == [kind |-> "setIsLoaded", ids |-> <<>>, id |-> <<>>]

RECURSIVE StarredAfter(_, _)
\* starredIds after the queued updates, in the order they were queued
StarredAfter(ids, updates) ==
    IF updates = <<>> THEN ids
    ELSE StarredAfter(
            IF Head(updates).kind = "setStarredIds" THEN Head(updates).ids
            ELSE IF Head(updates).kind = "toggle" THEN Toggled(ids, Head(updates).id)
            ELSE ids,
            Tail(updates))

\* the save effect writes whatever isLoaded is
SaveGuardAlways(isLoaded) == TRUE

\* if (isLoaded) of the save effect
SaveGuard(isLoaded) == isLoaded

(* Inputs: what the storage holds at mount, and the ids that are toggled *)
MaxStored == 2
MaxToggles == 3
StarIds == { <<"1">>, <<"2">> }
StoredValues ==
    { NoItem, <<>>, <<"{", "}">>, <<"[", Quote, "1", Quote>>, <<"o", "o", "p", "s">> }
        \cup {JSONStringify(l) : l \in SeqsUpTo(StarIds, MaxStored)}

\* the provider after its first render: the two useState defaults, and the
\* two effects of the mount not yet run
InitStar ==
    /\ localStorage \in {[k \in StorageKeys |-> IF k = STARRED_STORAGE_KEY THEN v ELSE NoItem] :
                            v \in StoredValues}
    /\ provider = [mounted |-> TRUE, starredIds |-> <<>>, isLoaded |-> FALSE,
                   updates |-> <<>>, effects |-> <<"load", "save">>,
                   toggled |-> 0, lastSave |-> "none"]
    /\ modal = [mounted |-> FALSE]
    /\ NoAnnotatorInput /\ NoRankerInput
    /\ elements = <<>> /\ isNull = FALSE /\ ranked = <<>> /\ itemScore = 0
    /\ threw = FALSE /\ calls = <<>> /\ pc = "start" /\ op = "starred"

\* the load effect of the mount: the stored array, or the empty list for
\* another JSON value, is queued when there is a stored string that parses;
\* isLoaded is queued in every case
LoadEffect ==
    /\ provider.mounted /\ provider.effects # <<>> /\ Head(provider.effects) = "load"
    /\ LET stored == localStorage[STARRED_STORAGE_KEY]
           parsed == JSONParse(stored)
           sets == IF stored = NoItem \/ stored = <<>> \/ parsed.throws THEN <<>>
                   ELSE <<SetStarredIds(IF parsed.isArray THEN parsed.value ELSE <<>>)>>
       IN  provider' = [provider EXCEPT
                           !.updates = @ \o sets \o <<SetIsLoaded>>,
                           !.effects = Tail(@)]
    /\ UNCHANGED <<engineVars, localStorage, modal>>

\* the save effect, with the starredIds and isLoaded of the render it belongs
\* to: setItem stores the list or throws, and a throw is caught and logged
SaveEffect ==
    /\ provider.mounted /\ provider.effects # <<>> /\ Head(provider.effects) = "save"
    /\ IF SaveGuard(provider.isLoaded)
       THEN \E setItemThrows \in BOOLEAN :
               /\ localStorage' =
                     IF setItemThrows THEN localStorage
                     ELSE [localStorage EXCEPT
                              ![STARRED_STORAGE_KEY] = JSONStringify(provider.starredIds)]
               /\ provider' = [provider EXCEPT
                                  !.effects = Tail(@),
                                  !.lastSave = IF setItemThrows THEN "failed" ELSE "written"]
       ELSE /\ provider' = [provider EXCEPT !.effects = Tail(@)]
            /\ UNCHANGED localStorage
    /\ UNCHANGED <<engineVars, modal>>

\* toggleStar(activityId): the updater is queued; pending effects are flushed
\* before an event is handled
toggleStar(activityId) ==
    /\ provider.mounted /\ provider.effects = <<>>
    /\ provider.toggled < MaxToggles
    /\ provider' = [provider EXCEPT
                       !.updates = Append(@, ToggleUpdate(activityId)),
                       !.toggled = @ + 1]
    /\ UNCHANGED <<engineVars, localStorage, modal>>

\* a render of the provider: the queued updates are applied in one batch, and
\* the save effect is pending again when one of its dependencies changed (a
\* queued list is a new array even when it holds the same ids)
StarredProvider ==
    /\ provider.mounted /\ provider.effects = <<>> /\ provider.updates # <<>>
    /\ LET loaded == provider.isLoaded
                        \/ \E k \in 1..Len(provider.updates) :
                              provider.updates[k].kind = "setIsLoaded"
           changed == \/ loaded # provider.isLoaded
                      \/ \E k \in 1..Len(provider.updates) :
                            provider.updates[k].kind \in {"setStarredIds", "toggle"}
       IN  provider' = [provider EXCEPT
                           !.starredIds = StarredAfter(@, provider.updates),
                           !.isLoaded = loaded,
                           !.updates = <<>>,
                           !.effects = IF changed THEN <<"save">> ELSE <<>>]
    /\ UNCHANGED <<engineVars, localStorage, modal>>

NextStar ==
    \/ LoadEffect
    \/ SaveEffect
    \/ StarredProvider
    \/ \E activityId \in StarIds : toggleStar(activityId)

SpecStar == InitStar /\ [][NextStar]_vars

\* the scheduler runs every pending effect and every scheduled render
SpecStarLive ==
    /\ SpecStar
    /\ WF_vars(LoadEffect) /\ WF_vars(SaveEffect) /\ WF_vars(StarredProvider)

----------------------------------------------------------------------------
(* IntroModal: the introduction that opens by itself until it is dismissed *)

IntroTypes == {"activities", "tools"}

\* the prop of both call sites
showInitially == TRUE

\* the stored flag, and a fetched text that is not empty
DismissedFlag == <<"t", "r", "u", "e">>
IntroText == <<"#", " ", "I", "n", "t", "r", "o">>

\* a string that is truthy: there is an item and it is not the empty string
Truthy(v) == v # NoItem /\ v # <<>>

\* localStorage.getItem(STORAGE_KEY) is truthy
Dismissed(store, type) == Truthy(store[STORAGE_KEY(type)])

\* the component after its mount and the effects of the mount: the fetch is
\* under way, the checkbox shows the stored flag, no timer is set
Mounted(store, type) ==
    [mounted |-> TRUE, type |-> type, isOpen |-> FALSE, markdownContent |-> <<>>,
     loading |-> TRUE, fetch |-> "fetching", dontShowAgain |-> Dismissed(store, type),
     contentLoaded |-> FALSE, timer |-> "idle"]

\* the modal is on screen
Visible == modal.isOpen /\ modal.contentLoaded /\ modal.markdownContent # <<>>

InitModal ==
    /\ localStorage \in {[k \in StorageKeys |->
                            IF k = STARRED_STORAGE_KEY THEN NoItem ELSE flags[k]] :
                            flags \in [StorageKeys -> {NoItem, DismissedFlag}]}
    /\ \E type \in IntroTypes : modal = Mounted(localStorage, type)
    /\ provider = [mounted |-> FALSE]
    /\ NoAnnotatorInput /\ NoRankerInput
    /\ elements = <<>> /\ isNull = FALSE /\ ranked = <<>> /\ itemScore = 0
    /\ threw = FALSE /\ calls = <<>> /\ pc = "start" /\ op = "intro"

\* the component is mounted anew, on a page of either library
IntroModal(type) ==
    /\ modal.mounted
    /\ modal' = Mounted(localStorage, type)
    /\ UNCHANGED <<engineVars, localStorage, provider>>


\* the show-initially effect: the timer is set when the content is there and
\* the stored flag is not
ArmsTimer(content, loaded, store, type) ==
    showInitially /\ loaded /\ content # <<>> /\ ~Dismissed(store, type)

\* await fetch(...) of loadMarkdown ends: a response that is ok, whose text is
\* awaited next, or one that is not ok, or a fetch that throws; the last two
\* are logged and end the load
fetchResponds ==
    /\ modal.mounted /\ modal.fetch = "fetching"
    /\ \E ok \in BOOLEAN :
          modal' = IF ok THEN [modal EXCEPT !.fetch = "reading"]
                   ELSE [modal EXCEPT !.fetch = "done", !.loading = FALSE]
    /\ UNCHANGED <<engineVars, localStorage, provider>>

\* await response.text() of loadMarkdown ends: the text, which may be empty,
\* is set with contentLoaded, or the read throws; then the show-initially
\* effect runs when contentLoaded or markdownContent changed
loadMarkdown ==
    /\ modal.mounted /\ modal.fetch = "reading"
    /\ \E outcome \in {"text", "empty", "throws"} :
          LET ok == outcome \in {"text", "empty"}
              content == IF outcome = "text" THEN IntroText ELSE <<>>
          IN  modal' = [modal EXCEPT
                           !.markdownContent = content,
                           !.contentLoaded = ok,
                           !.loading = FALSE,
                           !.fetch = "done",
                           !.timer = IF ok /\ ArmsTimer(content, TRUE, localStorage, modal.type)
                                     THEN "armed" ELSE @]
    /\ UNCHANGED <<engineVars, localStorage, provider>>

\* the callback of setTimeout, 1500 ms after the effect: setIsOpen(true)
TimerFires ==
    /\ modal.mounted /\ modal.timer = "armed"
    /\ modal' = [modal EXCEPT !.isOpen = TRUE, !.timer = "fired"]
    /\ UNCHANGED <<engineVars, localStorage, provider>>

\* a click on the help button, which is disabled until the content is loaded
openModal ==
    /\ modal.mounted /\ modal.contentLoaded
    /\ modal' = [modal EXCEPT
                    !.isOpen = IF modal.contentLoaded /\ modal.markdownContent # <<>>
                               THEN TRUE ELSE @]
    /\ UNCHANGED <<engineVars, localStorage, provider>>

\* the checkbox of the modal is clicked
setDontShowAgain ==
    /\ modal.mounted /\ Visible
    /\ modal' = [modal EXCEPT !.dontShowAgain = ~@]
    /\ UNCHANGED <<engineVars, localStorage, provider>>

\* the close button, "Got it!", the backdrop or the ESC key
handleClose ==
    /\ modal.mounted /\ Visible
    /\ localStorage' = IF modal.dontShowAgain
                       THEN [localStorage EXCEPT ![STORAGE_KEY(modal.type)] = DismissedFlag]
                       ELSE localStorage
    /\ modal' = [modal EXCEPT !.isOpen = FALSE]
    /\ UNCHANGED <<engineVars, provider>>

NextModal ==
    \/ \E type \in IntroTypes : IntroModal(type)
    \/ fetchResponds
    \/ loadMarkdown
    \/ TimerFires
    \/ openModal
    \/ setDontShowAgain
    \/ handleClose

SpecModal == InitModal /\ [][NextModal]_vars

----------------------------------------------------------------------------
(* Properties of the Ranker, checked under SpecRank *)

Searched == pc = "done" /\ op = "search"

\* the query is empty or holds white space only
BlankQuery == \A i \in 1..Len(query) : query[i] \in WhiteSpace

\* the query as the tiers see it
Q == TrimmedQuery(query)

\* how often record r occurs in list l
Count(l, r) == Cardinality({i \in 1..Len(l) : l[i] = r})

\* the fields calculateItemScore reads
ScoredFields == {"Display Name", "code name", "Aliases", "Short Description"}
                    \cup Range(searchableFields)

\* C6: with an empty or white-space-only query the Ranker returns the input
\* list itself: the same records in the same order, records without any field
\* value included.
C6_IdentityOnBlankQuery ==
    (Searched /\ BlankQuery) => ranked = items

C6_Witness ==
    /\ Searched /\ query = <<" ">> /\ Len(items) = 2
    /\ \E i \in 1..2 : \A f \in ScoredFields : Field(items[i], f) = <<>>
    /\ \E i \in 1..2 : calculateItemScore(items[i], Car) > 0
    /\ ranked = items

\* C7: with a non-empty trimmed query a record is in the output exactly when
\* its score is positive, and then as often as in the input; a record none of
\* whose scored fields contains the query is absent.
C7_ZeroScoreExclusion ==
    (Searched /\ ~BlankQuery) =>
        /\ \A r \in Range(items) \cup Range(ranked) :
              Count(ranked, r) = IF calculateItemScore(r, Q) > 0 THEN Count(items, r) ELSE 0
        /\ \A r \in Range(items) :
              (\A f \in ScoredFields : ~Includes(ToLowerCase(Field(r, f)), Q))
                  => r \notin Range(ranked)

C7_Witness ==
    /\ Searched /\ query = Car /\ Len(items) = 2 /\ Len(ranked) = 1
    /\ items[1] # items[2]
    /\ \E i \in 1..2 : \A f \in ScoredFields : ~Includes(ToLowerCase(Field(items[i], f)), Car)

\* C8 as stated: the output holds exactly the records of the input, for any
\* query.
C8_SameMembership ==
    Searched => \A r \in Range(items) \cup Range(ranked) : Count(ranked, r) = Count(items, r)

\* C8, amended: the output holds only records of the input, none more often
\* than the input; it holds exactly the records of the input when the query
\* is blank or every input record scores above 0, and fewer otherwise.
C8_SubsetOfInput ==
    Searched =>
        /\ \A r \in Range(ranked) : r \in Range(items) /\ Count(ranked, r) <= Count(items, r)
        /\ (Len(ranked) = Len(items))
              <=> (BlankQuery \/ \A i \in 1..Len(items) : calculateItemScore(items[i], Q) > 0)

C8_Witness ==
    /\ Searched /\ ~BlankQuery /\ Len(items) = 2 /\ Len(ranked) = 1
    /\ ranked[1] = items[2]

\* C9: with a non-empty trimmed query the output is the positive-score records
\* of the input in the order of a stable sort by score descending, then numeric
\* id ascending: the record at input position i comes out at the position that
\* counts the positive-score records before it in that order, and adjacent
\* output records are ordered by the two keys.
C9_OutputOrder ==
    (Searched /\ ~BlankQuery) =>
        LET score == [i \in 1..Len(items) |-> calculateItemScore(items[i], Q)]
            numId == [i \in 1..Len(items) |-> NumId(items[i])]
            positive == {i \in 1..Len(items) : score[i] > 0}
            before(j, i) ==
                \/ score[j] > score[i]
                \/ score[j] = score[i] /\ numId[j] < numId[i]
                \/ score[j] = score[i] /\ numId[j] = numId[i] /\ j < i
            place(i) == 1 + Cardinality({j \in positive : before(j, i)})
            outScore == [k \in 1..Len(ranked) |-> calculateItemScore(ranked[k], Q)]
        IN  /\ Len(ranked) = Cardinality(positive)
            /\ \A i \in positive : ranked[place(i)] = items[i]
            /\ \A k \in 1..(Len(ranked) - 1) :
                  \/ outScore[k] > outScore[k + 1]
                  \/ outScore[k] = outScore[k + 1] /\ NumId(ranked[k]) <= NumId(ranked[k + 1])

\* equal scores with ids "3" and "1" come out as "1" then "3"
C9_Witness ==
    /\ Searched /\ query = Car /\ Len(items) = 2 /\ Len(ranked) = 2
    /\ IdOf(items[1]) = <<"3">> /\ IdOf(items[2]) = <<"1">>
    /\ calculateItemScore(items[1], Car) = calculateItemScore(items[2], Car)
    /\ IdOf(ranked[1]) = <<"1">> /\ IdOf(ranked[2]) = <<"3">>

\* C10: with a non-empty trimmed query (the only case in which tiers are
\* computed) every input record whose name equals the query is ranked before
\* every record whose name only starts with it, and every such record before
\* every record whose name only contains it, whatever the other fields hold.
C10_Name(r) == {ToLowerCase(Field(r, "Display Name")), ToLowerCase(Field(r, "code name"))}

C10_Exact(r) == \E n \in C10_Name(r) : n = Q

C10_PrefixOnly(r) == ~C10_Exact(r) /\ \E n \in C10_Name(r) : StartsWith(n, Q)

C10_SubstringOnly(r) ==
    /\ ~C10_Exact(r)
    /\ \A n \in C10_Name(r) : ~StartsWith(n, Q)
    /\ \E n \in C10_Name(r) : Includes(n, Q)

C10_Tier(r) ==
    IF C10_Exact(r) THEN 1 ELSE IF C10_PrefixOnly(r) THEN 2
    ELSE IF C10_SubstringOnly(r) THEN 3 ELSE 4

C15_InputUnchanged == [][items' = items]_vars

\* a search that returned the two input records in the other order: the sort
\* took place
C15_Witness ==
    /\ Searched /\ ~BlankQuery /\ Len(items) = 2 /\ Len(ranked) = 2
    /\ ranked = <<items[2], items[1]>> /\ items[1] # items[2]

\* a record with every scored field present, a missing one as the empty
\* string, and with the id "0" when its id is missing or not a number
IdKeyZero(r) == "id" \notin DOMAIN r \/ parseInt(r["id"]).nan
Filled(r) ==
    [f \in DOMAIN r \cup ScoredFields \cup {"id"} |->
        IF f = "id" THEN (IF IdKeyZero(r) THEN <<"0">> ELSE r[f])
        ELSE IF f \in DOMAIN r THEN r[f] ELSE <<>>]
FilledAll(l) == [k \in 1..Len(l) |-> Filled(l[k])]

\* C13: for any list of records in which any field, the id and the names
\* included, may be missing and for any query the Ranker returns and does not
\* throw; a missing field counts as the empty string and a missing or
\* non-numeric id as sort key 0: the result is the one for the records with their
\* missing fields set to "" and such ids set to "0".
C13_RankerTotality ==
    Searched =>
        /\ ~threw
        /\ FilledAll(ranked) = searchWithScoring(FilledAll(items), query)
        /\ \A k \in 1..Len(items) : IdKeyZero(items[k]) => NumId(items[k]) = 0

\* A record whose id is no number and whose code name, Aliases and Short
\* Description are missing ties on the score with the record of id "1" before
\* it in the input, and comes out first, by its sort key 0.
C13_Witness ==
    /\ Searched /\ ~BlankQuery /\ Len(items) = 2
    /\ IdOf(items[1]) = <<"1">> /\ IdOf(items[2]) = <<"x">>
    /\ DOMAIN items[2] \cap {"code name", "Aliases", "Short Description"} = {}
    /\ calculateItemScore(items[1], Q) = calculateItemScore(items[2], Q)
    /\ ranked = <<items[2], items[1]>>

----------------------------------------------------------------------------
(* Properties of calculateItemScore, checked under SpecScore *)

Scored == pc = "done" /\ op = "score"

\* the field in lower case, the empty string when the record has no such field
LoweredField(r, f) == IF f \in DOMAIN r THEN ToLowerCase(r[f]) ELSE <<>>

\* q occurs in s / s begins with q
OccursIn(q, s) == \E p \in 1..(Len(s) - Len(q) + 1) : SubSeq(s, p, p + Len(q) - 1) = q
BeginsWith(s, q) == Len(s) >= Len(q) /\ SubSeq(s, 1, Len(q)) = q

\* the name tier of the claim, and the number of long-form fields that hold q
NameTierOf(r, q) ==
    LET dn == LoweredField(r, "Display Name")
        cn == LoweredField(r, "code name")
    IN  CASE dn = q \/ cn = q -> 1000
          [] ~(dn = q \/ cn = q) /\ (BeginsWith(dn, q) \/ BeginsWith(cn, q)) -> 500
          [] ~(BeginsWith(dn, q) \/ BeginsWith(cn, q)) /\ (OccursIn(q, dn) \/ OccursIn(q, cn)) -> 100
          [] OTHER -> 0
LongFormHits(r, q) ==
    Cardinality({f \in { "Long Description", "Benefits", "Parent Skills",
                          "Child Techniques", "Alternatives", "Sub-techniques", "Tools",
                          "Written Guide - Intro", "Written Guide - Health Routine",
                          "Written Guide - Target Audience", "Written Guide - Issues",
                          "Written Guide - Setup", "Written Guide - Walkthrough",
                          "Written Guide - Tips and Tricks" } :
                     OccursIn(q, LoweredField(r, f))})

\* C11: for a non-empty lower-cased trimmed query q the score of a record is
\* nameTier + 50 if Aliases holds q + 25 if Short Description holds q + 10 for
\* every one of the 14 long-form fields that holds q, where nameTier is 1000
\* (a name equals q), else 500 (a name starts with q), else 100 (a name holds
\* q), else 0: the three name-tier values are never summed.
C11_ScoreFormula ==
    Scored =>
        /\ itemScore = NameTierOf(items[1], query)
                        + (IF OccursIn(query, LoweredField(items[1], "Aliases")) THEN 50 ELSE 0)
                        + (IF OccursIn(query, LoweredField(items[1], "Short Description"))
                           THEN 25 ELSE 0)
                        + 10 * LongFormHits(items[1], query)
        /\ NameTierOf(items[1], query) \in {0, 100, 500, 1000}

\* a record whose name equals the query, so that all three name conditions
\* hold, with the word in Aliases, Short Description and all 14 fields
C11_Witness ==
    /\ Scored /\ query = Car
    /\ LoweredField(items[1], "Display Name") = Car
    /\ BeginsWith(LoweredField(items[1], "code name"), Car)
    /\ LongFormHits(items[1], query) = 14
    /\ itemScore = 1215

----------------------------------------------------------------------------
(* Properties of the Annotator, checked under SpecBlocks and SpecLink *)

Rendered == pc = "done" /\ op \in {ActivityPage, ToolPage} /\ ~isNull

\* the text of a sequence of segments, tags ignored
SegsText(segs) == Concat([m \in 1..Len(segs) |-> segs[m].text])

\* the text of all segments of all blocks, in order
AllText(els) ==
    Concat([k \in 1..Len(els) |->
              Concat([j \in 1..Len(els[k].items) |-> SegsText(els[k].items[j])])])

\* the position of the first character of segment m in the text of segs
SegStart(segs, m) == 1 + Len(SegsText(SubSeq(segs, 1, m - 1)))

\* every inline segment sequence of the output: one per <div>, one per <li>
Inlines ==
    UNION {{elements[k].items[j] : j \in 1..Len(elements[k].items)} : k \in 1..Len(elements)}

\* the lines of the input
Lines == SplitOn(children, "\n")

\* the <div> blocks that hold a line of the input, each with its line
LineBlocks == {k \in 1..Len(elements) :
                  elements[k].kind = "div" /\ Lines[elements[k].key + 1] # <<>>}

\* C1 as stated: the text of all segments of all blocks is the input text.
C1_RoundTrip ==
    Rendered => AllText(elements) = children

RECURSIVE C1_Kept(_, _)
\* What the blocks keep of the lines: a list-item line gives its trimmed text
\* without the marker, any other line that is not blank gives itself, a blank
\* line gives nothing unless nothing was kept before it, and then itself, or a
\* no-break space when it is empty. Line breaks are not kept.
C1_Kept(lines, any) ==
    IF lines = <<>> THEN <<>>
    ELSE LET line == Head(lines)
             t == Trim(line)
         IN  IF StartsWith(t, <<"-", " ">>) \/ StartsWith(t, <<"*", " ">>)
             THEN SubSeq(t, 3, Len(t)) \o C1_Kept(Tail(lines), TRUE)
             ELSE IF t # <<>> THEN line \o C1_Kept(Tail(lines), TRUE)
             ELSE IF any THEN C1_Kept(Tail(lines), TRUE)
             ELSE (IF line = <<>> THEN <<NBSP>> ELSE line) \o C1_Kept(Tail(lines), TRUE)

\* C1, amended: the text of all segments of all blocks is the input text
\* without its line breaks, with every list-item line trimmed and without its
\* two-character marker, and without its blank lines, except a blank line
\* met while the output is still empty, which is kept as written (as one
\* no-break space when it is the empty string).
C1_RoundTripOfKeptText ==
    Rendered => AllText(elements) = C1_Kept(Lines, FALSE)

\* a list item with a link behind a line with a link: marker and line break
\* are gone, all the rest is there
C1_Witness ==
    /\ Rendered /\ Len(elements) = 2
    /\ elements[1].kind = "div" /\ elements[2].kind = "ul"
    /\ \E m \in 1..Len(elements[1].items[1]) : elements[1].items[1][m].tag = "entity"
    /\ \E m \in 1..Len(elements[2].items[1]) : elements[2].items[1][m].tag = "entity"
    /\ AllText(elements) # children
    /\ Len(AllText(elements)) = Len(children) - 3

\* the entity links of the output: every segment tagged entity, with the text
\* it was cut from and its first and last position there
EntityLinks ==
    UNION {{[seg |-> segs[m], line |-> SegsText(segs), first |-> SegStart(segs, m),
             last |-> SegStart(segs, m) + Len(segs[m].text) - 1] :
               m \in {n \in 1..Len(segs) : segs[n].tag = "entity"}} : segs \in Inlines}

\* the list whose names the page links and the current id is compared with
OwnList == IF op = ActivityPage THEN activities ELSE tools

\* C2 as stated: no entity link of the output targets a record whose id is the
\* exclude id, whatever the lists hold.
C2_NoLinkToExcludedId ==
    Rendered => \A l \in EntityLinks : IdOf(l.seg.rec) # currentId

\* C2, amended: no entity link targets a record of the page's own library
\* whose id is the exclude id: no activity of that id on the activity page, no
\* tool of that id on a tool page. On the activity page the tool names are
\* not compared with the exclude id, and a tool of that id is linked.
C2_NoSelfLink ==
    Rendered =>
        \A l \in EntityLinks :
            IdOf(l.seg.rec) = currentId =>
                /\ op = ActivityPage
                /\ Field(l.seg.rec, "Library") = Tools
                /\ l.seg.rec \in Range(tools)

\* the record's own name stands in its text as a whole word, next to a linked
\* name, and stays plain
C2_Witness ==
    /\ Rendered
    /\ \E i \in 1..Len(OwnList) :
          /\ IdOf(OwnList[i]) = currentId
          /\ \E p \in 1..(Len(children) - Len(DisplayNameOf(OwnList[i])) + 1) :
                /\ SubSeq(children, p, p + Len(DisplayNameOf(OwnList[i])) - 1)
                       = DisplayNameOf(OwnList[i])
                /\ ~IsWordAt(children, p - 1)
                /\ ~IsWordAt(children, p + Len(DisplayNameOf(OwnList[i])))
                /\ \A l \in EntityLinks :
                      l.last < p \/ l.first > p + Len(DisplayNameOf(OwnList[i])) - 1
    /\ EntityLinks # {}
    /\ \A l \in EntityLinks : IdOf(l.seg.rec) # currentId

\* name n (lower-cased) stands in line at position p as a whole word: bounded
\* on both sides by a non-word character or an edge of the line
WholeWordAt(line, n, p) ==
    /\ p >= 1 /\ p + Len(n) - 1 <= Len(line)
    /\ ToLowerCase(SubSeq(line, p, p + Len(n) - 1)) = n
    /\ ~IsWordAt(line, p - 1)
    /\ ~IsWordAt(line, p + Len(n))

\* the entity links of the <div> of line block k, with their positions in the line
LinksOfBlock(k) ==
    LET segs == elements[k].items[1]
    IN  {[rec |-> segs[m].rec, text |-> segs[m].text, first |-> SegStart(segs, m),
          last |-> SegStart(segs, m) + Len(segs[m].text) - 1] :
            m \in {n \in 1..Len(segs) : segs[n].tag = "entity"}}

\* the lower-cased candidate names of a tool page
ToolPageNames ==
    {ToLowerCase(DisplayNameOf(tools[i])) :
        i \in {j \in 1..Len(tools) : Admitted(tools[j], currentId, TRUE)}}

\* C3, for a tool page whose candidates are the two names alone: when the
\* short name stands as a whole word inside the long name, every whole-word
\* occurrence of the long name in a line is exactly one link to its record
\* over the whole occurrence, with no link to the short name's record inside,
\* and the short name is linked at its whole-word occurrences elsewhere.
C3_LongestMatch ==
    (Rendered /\ op = ToolPage) =>
        \A short, long \in ToolPageNames :
            (/\ ToolPageNames = {short, long}
             /\ Len(short) < Len(long)
             /\ \E q \in 1..Len(long) : WholeWordAt(long, short, q))
            =>
            \A k \in LineBlocks :
                LET line == Lines[elements[k].key + 1]
                    links == LinksOfBlock(k)
                    longRec == MapGet(tools, currentId, TRUE, long)
                    shortRec == MapGet(tools, currentId, TRUE, short)
                    longAt == {p \in 1..Len(line) : WholeWordAt(line, long, p)}
                    inLong(p) == \E o \in longAt : o <= p /\ p <= o + Len(long) - 1
                IN  /\ \A p \in longAt :
                          /\ Cardinality({l \in links :
                                 l.first = p /\ l.last = p + Len(long) - 1
                                     /\ l.rec = longRec}) = 1
                          /\ \A l \in links :
                                 (l.first >= p /\ l.last <= p + Len(long) - 1)
                                     => l.rec # shortRec \/ shortRec = longRec
                    /\ \A p \in 1..Len(line) :
                          (WholeWordAt(line, short, p) /\ ~inLong(p))
                              => \E l \in links :
                                     l.first = p /\ l.last = p + Len(short) - 1
                                         /\ l.rec = shortRec

\* the same for two names that begin and end with a word character, where it
\* holds: the long name is linked whole and the short name elsewhere
C3_LongestMatchOfWordNames ==
    (Rendered /\ op = ToolPage) =>
        \A short, long \in ToolPageNames :
            (/\ ToolPageNames = {short, long}
             /\ Len(short) < Len(long)
             /\ \A n \in {short, long} : n[1] \in WordChars /\ n[Len(n)] \in WordChars
             /\ \E q \in 1..Len(long) : WholeWordAt(long, short, q))
            =>
            \A k \in LineBlocks :
                LET line == Lines[elements[k].key + 1]
                    links == LinksOfBlock(k)
                    longAt == {p \in 1..Len(line) : WholeWordAt(line, long, p)}
                    inLong(p) == \E o \in longAt : o <= p /\ p <= o + Len(long) - 1
                IN  /\ \A p \in longAt :
                          \E l \in links :
                              /\ l.first = p /\ l.last = p + Len(long) - 1
                              /\ l.rec = MapGet(tools, currentId, TRUE, long)
                    /\ \A p \in 1..Len(line) :
                          (WholeWordAt(line, short, p) /\ ~inLong(p))
                              => \E l \in links :
                                     /\ l.first = p /\ l.last = p + Len(short) - 1
                                     /\ l.rec = MapGet(tools, currentId, TRUE, short)

\* C4 as stated: the character before every entity link is a non-word
\* character or the link starts its line, and the character after it is a
\* non-word character or the link ends its line, whatever the name.
C4_WordBoundarySafety ==
    Rendered =>
        \A l \in EntityLinks :
            ~IsWordAt(l.line, l.first - 1) /\ ~IsWordAt(l.line, l.last + 1)

\* the same for the links whose name begins and ends with a word character,
\* where it holds
C4_WordBoundarySafetyOfWordNames ==
    Rendered =>
        \A l \in EntityLinks :
            (l.seg.text[1] \in WordChars /\ l.seg.text[Len(l.seg.text)] \in WordChars)
                => ~IsWordAt(l.line, l.first - 1) /\ ~IsWordAt(l.line, l.last + 1)

\* the entity links of a block sequence: block, item, first and last position
\* in the item's text, target record
EntityView(els) ==
    UNION {UNION {
        LET segs == els[k].items[j]
        IN  {<<k, j, SegStart(segs, m), SegStart(segs, m) + Len(segs[m].text) - 1,
               segs[m].rec>> : m \in {n \in 1..Len(segs) : segs[n].tag = "entity"}}
        : j \in 1..Len(els[k].items)} : k \in 1..Len(els)}

\* the page rendered again for another text
RenderedFor(text) ==
    FormattedText(text, op, IF op = ActivityPage THEN activities ELSE <<>>,
                  tools, currentId).elements

\* C5: the links do not depend on the letter case of the text: the text in
\* lower case and the text in upper case give links at the same places to the
\* same records as the text as written; every link shows the span of the input
\* line as written, and that span is the target's name up to letter case.
C5_CaseInsensitive ==
    Rendered =>
        /\ EntityView(RenderedFor(ToLowerCase(children))) = EntityView(elements)
        /\ EntityView(RenderedFor(ToUpperCase(children))) = EntityView(elements)
        /\ \A k \in LineBlocks : \A l \in LinksOfBlock(k) :
              /\ l.text = SubSeq(Lines[elements[k].key + 1], l.first, l.last)
              /\ ToLowerCase(l.text) = ToLowerCase(DisplayNameOf(l.rec))

\* a name written in mixed case, in none of the three spellings the text is
\* compared in, linked to its record and shown as written
C5_Witness ==
    /\ Rendered
    /\ \E k \in LineBlocks : \E l \in LinksOfBlock(k) :
          /\ l.text # DisplayNameOf(l.rec)
          /\ l.text # ToLowerCase(l.text) /\ l.text # ToUpperCase(l.text)
          /\ l.last < Len(Lines[elements[k].key + 1])

----------------------------------------------------------------------------
(* Properties of the Annotator on empty and absent input, checked under SpecAbsent *)

Returned == pc = "done" /\ op \in {ActivityPage, ToolPage}

\* C12: when the text is empty or absent the Annotator returns an empty result,
\* no block and no segment, and throws nothing, whatever the lists and the
\* exclude id are.
C12_EmptyInput ==
    (Returned /\ (children = Undefined \/ children = <<>>)) =>
        isNull /\ elements = <<>> /\ ~threw

\* an absent text rendered with both lists holding records and an id given
C12_Witness ==
    /\ Returned /\ children = Undefined /\ op = ActivityPage
    /\ activities = ActivityMaster /\ tools = ToolMaster /\ currentId = <<"1">>
    /\ isNull

\* the same for the empty string, with absent lists and an absent id
C12_WitnessEmpty ==
    /\ Returned /\ children = <<>> /\ activities = NoList /\ tools = NoList
    /\ currentId = Undefined /\ isNull

----------------------------------------------------------------------------
(* Properties of interleaved calls, checked under SpecConcurrent *)

\* what call c returns when it runs alone
AloneResult(c) ==
    IF calls[c].kind = "rank"
    THEN [isNull |-> FALSE, out |-> searchWithScoring(calls[c].items, calls[c].query)]
    ELSE LET r == FormattedText(calls[c].text, calls[c].site, CtxOf(c).acts,
                                calls[c].tls, calls[c].cur)
         IN  [isNull |-> r.isNull, out |-> r.elements]

\* C14: when calls of the Annotator and of the Ranker run interleaved in any
\* order on inputs of their own, each call returns what it returns when it
\* runs alone.
C14_ConcurrentCallIndependence ==
    op = "concurrent" =>
        \A c \in Slots :
            calls[c].pc = "done" =>
                /\ calls[c].isNull = AloneResult(c).isNull
                /\ calls[c].out = AloneResult(c).out

\* two searches with different non-empty results, each of which took steps
\* while the other was between its first and its last step, have both returned
C14_Witness ==
    /\ op = "concurrent"
    /\ \A c \in Slots : calls[c].pc = "done" /\ calls[c].overlapped /\ calls[c].kind = "rank"
    /\ Len(calls[1].out) = 2 /\ Len(calls[2].out) = 1
    /\ calls[1].out[1] # calls[2].out[1]

\* a search and a rendering of a text with a list have both returned after
\* steps taken in between each other's
C14_WitnessMixed ==
    /\ op = "concurrent"
    /\ \A c \in Slots : calls[c].pc = "done" /\ calls[c].overlapped
    /\ calls[1].kind = "rank" /\ Len(calls[1].out) = 2
    /\ calls[2].kind = "annotate" /\ Len(calls[2].out) = 2

----------------------------------------------------------------------------
(* Properties of block splitting, checked under SpecBlocks *)

\* the 0-based indices of the lines, of the blank ones, and the <div> of a line
LineIndices == 0..(Len(Lines) - 1)
IsBlankLine(i) == Trim(Lines[i + 1]) = <<>>
DivOfLine(i) == {k \in 1..Len(elements) : elements[k].kind = "div" /\ elements[k].key = i}

\* C16: every line that is empty after trimming produces a spacer block,
\* except when it would be the first block of a still-empty output (no line
\* with content before it), in which case it produces nothing.
C16_BlankLineSpacers ==
    Rendered =>
        \A i \in LineIndices :
            IsBlankLine(i) =>
                (DivOfLine(i) # {} <=> \E j \in LineIndices : j < i /\ ~IsBlankLine(j))

\* what the loop does instead: a blank line produces a block exactly when the
\* output is still empty, which is so for the first line only
C16_BlankLineOnlyWhenEmpty ==
    Rendered =>
        \A i \in LineIndices : IsBlankLine(i) => (DivOfLine(i) # {} <=> i = 0)

\* a line whose trimmed form starts with "- " or "* ", and its text without the marker
IsListLine(i) ==
    LET t == Trim(Lines[i + 1])
    IN  Len(t) >= 2 /\ (SubSeq(t, 1, 2) = <<"-", " ">> \/ SubSeq(t, 1, 2) = <<"*", " ">>)
ItemTextOfLine(i) == LET t == Trim(Lines[i + 1]) IN SubSeq(t, 3, Len(t))

\* the maximal runs of consecutive list-item lines, by first line; the last
\* line of the run that starts at s
RunStarts == {i \in LineIndices : IsListLine(i) /\ (i = 0 \/ ~IsListLine(i - 1))}
RunEnd(s) ==
    CHOOSE e \in LineIndices :
        /\ e >= s /\ \A j \in s..e : IsListLine(j)
        /\ (e + 1 \in LineIndices => ~IsListLine(e + 1))

\* the <ul> blocks, and the run that the n-th of them has to hold
UlBlocks == {k \in 1..Len(elements) : elements[k].kind = "ul"}
RunOfBlock(k) ==
    CHOOSE s \in RunStarts :
        Cardinality({r \in RunStarts : r <= s}) = Cardinality({u \in UlBlocks : u <= k})

\* the first line a block comes from
FirstLineOf(k) == IF elements[k].kind = "ul" THEN RunOfBlock(k) ELSE elements[k].key

\* C17: a line is a list item exactly when its trimmed form starts with "- " or
\* "* "; every maximal run of consecutive list-item lines gives exactly one
\* <ul> block with one item per line, in line order, without the marker; the
\* pending list comes before the block of the line that ends the run, a list
\* pending at the end of the text comes last, and the blocks are in the order
\* of their lines.
C17_ListBlocks ==
    Rendered =>
        /\ Cardinality(UlBlocks) = Cardinality(RunStarts)
        /\ \A k \in UlBlocks :
              LET s == RunOfBlock(k)
              IN  /\ Len(elements[k].items) = RunEnd(s) - s + 1
                  /\ \A j \in 1..Len(elements[k].items) :
                        SegsText(elements[k].items[j]) = ItemTextOfLine(s + j - 1)
        /\ \A k \in 1..Len(elements) : elements[k].kind = "div" => ~IsListLine(elements[k].key)
        /\ \A k \in 1..(Len(elements) - 1) : FirstLineOf(k) < FirstLineOf(k + 1)

\* two runs with a text line between them: a list of one item, the line, and
\* the list pending at the end of the text, which holds a "* " item
C17_Witness ==
    /\ Rendered /\ Len(elements) = 3
    /\ elements[1].kind = "ul" /\ elements[2].kind = "div" /\ elements[3].kind = "ul"
    /\ elements[3].key = -1
    /\ \E i \in LineIndices : IsListLine(i) /\ Trim(Lines[i + 1])[1] = "*"

----------------------------------------------------------------------------
(* Properties of the URL pass, checked under SpecUrl *)

\* the segments of the one line of the text
LineSegs == elements[1].items[1]

\* The fragments still plain behind the entity pass: the maximal runs of
\* segments that are no entity link, as <<first, last>> segment indices.
PlainRuns ==
    {r \in (1..Len(LineSegs)) \X (1..Len(LineSegs)) :
        /\ r[1] <= r[2]
        /\ \A m \in r[1]..r[2] : LineSegs[m].tag # "entity"
        /\ (r[1] > 1 => LineSegs[r[1] - 1].tag = "entity")
        /\ (r[2] < Len(LineSegs) => LineSegs[r[2] + 1].tag = "entity")}

\* a URL begins at position p of f: a scheme and one character that is not
\* white space behind the slashes
SchemeAt(f, p, scheme) ==
    /\ p + Len(scheme) <= Len(f)
    /\ SubSeq(f, p, p + Len(scheme) - 1) = scheme
    /\ f[p + Len(scheme)] \notin WhiteSpace
UrlBeginsAt(f, p) ==
    \/ SchemeAt(f, p, <<"h", "t", "t", "p", ":", "/", "/">>)
    \/ SchemeAt(f, p, <<"h", "t", "t", "p", "s", ":", "/", "/">>)

\* the last position of the run of characters that are not white space around p
RunEndAt(f, p) ==
    CHOOSE e \in p..Len(f) :
        /\ \A k \in p..e : f[k] \notin WhiteSpace
        /\ (e < Len(f) => f[e + 1] \in WhiteSpace)

\* The URLs of fragment f, as <<first position, text>>: a URL runs to the end
\* of its run of non-white-space characters, so a scheme inside an earlier
\* URL begins no URL of its own.
UrlsOf(f) ==
    {<<p, SubSeq(f, p, RunEndAt(f, p))>> :
        p \in {q \in 1..Len(f) :
                  /\ UrlBeginsAt(f, q)
                  /\ \A b \in 1..(q - 1) : UrlBeginsAt(f, b) => RunEndAt(f, b) < q}}

\* C18: in every fragment that is still plain text behind the entity pass,
\* every maximal run of characters that are not white space and that begins
\* with "http://" or "https://" and one more character is one ExternalLink
\* whose label and target are the matched text; the rest of the fragment stays
\* plain text, in its order.
C18_UrlPass ==
    (Rendered /\ Len(elements) = 1) =>
        /\ SegsText(LineSegs) = children
        /\ \A m \in 1..Len(LineSegs) :
              LineSegs[m].tag = "url" => LineSegs[m].href = LineSegs[m].text
        /\ \A r \in PlainRuns :
              LET run == SubSeq(LineSegs, r[1], r[2])
              IN  {<<SegStart(run, m), run[m].text>> :
                      m \in {n \in 1..Len(run) : run[n].tag = "url"}}
                  = UrlsOf(SegsText(run))

\* a line with two URLs, one of each scheme, and plain text between them
C18_Witness ==
    /\ Rendered /\ Len(elements) = 1 /\ Len(LineSegs) = 3
    /\ LineSegs[1].tag = "url" /\ LineSegs[2].tag = "text" /\ LineSegs[3].tag = "url"
    /\ LineSegs[1].text # LineSegs[3].text

\* a line with an entity link, plain text and a URL behind it
C18_WitnessBehindEntity ==
    /\ Rendered /\ Len(elements) = 1 /\ Len(LineSegs) = 3
    /\ LineSegs[1].tag = "entity" /\ LineSegs[2].tag = "text" /\ LineSegs[3].tag = "url"

----------------------------------------------------------------------------
(* Properties of the passes over one line, checked under SpecLink *)

\* the entity links of a segment sequence as <<first position, text, record>>,
\* moved by shift positions to the right
LinksAt(segs, shift) ==
    {<<shift + SegStart(segs, m), segs[m].text, segs[m].rec>> :
        m \in {n \in 1..Len(segs) : segs[n].tag = "entity"}}

\* the candidate names of the two passes of the page, in the order they are tried
FirstPassList == IF op = ActivityPage THEN activities ELSE tools
FirstPassNames == SortedNames(FirstPassList, currentId, TRUE)
SecondPassNames == IF op = ActivityPage THEN SortedNames(tools, currentId, FALSE) ELSE <<>>

\* the line after the first k names of the first pass have been tried
AfterFirstPass(k) ==
    LinkNames(<<PlainText(children)>>, SubSeq(FirstPassNames, 1, k), FirstPassList,
              currentId, TRUE)

\* the entity links found in the string at place m of the first pass's result
\* after the first k tool names have been tried on it, at their place in the line
AfterToolNames(m, k) ==
    LET first == AfterFirstPass(Len(FirstPassNames))
    IN  LinksAt(LinkNames(<<PlainText(first[m].text)>>, SubSeq(SecondPassNames, 1, k),
                          tools, currentId, FALSE),
                SegStart(first, m) - 1)

\* C19: a span that has become an entity link in some iteration is in the
\* final output as that link, at that place, to that record: no later
\* iteration for another name, no tool pass and no URL pass splits or re-links
\* it; and the segments of the final output are the line cut into pieces, each
\* character in exactly one of them.
C19_LinksFinalAndDisjoint ==
    (Rendered /\ Len(elements) = 1) =>
        /\ \A k \in 0..Len(FirstPassNames) :
              LinksAt(AfterFirstPass(k), 0) \subseteq LinksAt(LineSegs, 0)
        /\ \A m \in 1..Len(AfterFirstPass(Len(FirstPassNames))) :
              AfterFirstPass(Len(FirstPassNames))[m].tag = "text" =>
                  \A k \in 0..Len(SecondPassNames) :
                      AfterToolNames(m, k) \subseteq LinksAt(LineSegs, 0)
        /\ SegsText(LineSegs) = children
        /\ \A m \in 1..Len(LineSegs) : LineSegs[m].text # <<>>

\* On the activity page "Go Pro" is linked to its activity while the shorter
\* activity name "Go" and the tool names "Pro" and "GO PRO" are candidates
\* too, and a tool is linked elsewhere in the line.
C19_Witness ==
    /\ Rendered /\ Len(elements) = 1 /\ op = ActivityPage
    /\ Len(FirstPassNames) = 2 /\ Len(SecondPassNames) = 3
    /\ \E l \in LinksAt(LineSegs, 0) :
          /\ l[2] = <<"G", "o", " ", "P", "r", "o">>
          /\ Field(l[3], "Library") = Activities
    /\ \E l \in LinksAt(LineSegs, 0) : Field(l[3], "Library") = Tools

----------------------------------------------------------------------------
(* Properties of the placeholder name, checked under SpecOther *)

\* the canonical label of a record: its Display Name, else its code name
CanonicalLabel(r) ==
    IF "Display Name" \in DOMAIN r /\ r["Display Name"] # <<>> THEN r["Display Name"]
    ELSE IF "code name" \in DOMAIN r THEN r["code name"]
    ELSE <<>>

\* the label is the word "other" in some letter case
IsPlaceholder(label) ==
    /\ Len(label) = 5
    /\ \A p \in 1..5 : label[p] \in {<<"o", "t", "h", "e", "r">>[p], <<"O", "T", "H", "E", "R">>[p]}

\* C20: no entity link targets a record whose canonical label is "other" in
\* any letter case, no occurrence of the word "other" is a link on account of
\* such a record, and no link targets a record whose canonical label is empty.
C20_PlaceholderExclusion ==
    Rendered =>
        \A l \in EntityLinks :
            /\ ~IsPlaceholder(CanonicalLabel(l.seg.rec))
            /\ CanonicalLabel(l.seg.rec) # <<>>
            /\ ~IsPlaceholder(l.seg.text)

\* The line holds the word and a tool name; the list holds a tool named
\* "other", a tool without a name and the tool "Go": the only link is "Go".
C20_Witness ==
    /\ Rendered /\ op = ToolPage /\ tools = OtherTools
    /\ children = <<"o", "t", "h", "e", "r", " ", "G", "o">>
    /\ Cardinality(EntityLinks) = 1
    /\ \E l \in EntityLinks : l.seg.text = <<"G", "o">> /\ l.first = 7

\* the word inside a longer name is linked on account of the longer name's
\* record, while records named "Other" and "OTHER" are in the list
C20_WitnessLongerName ==
    /\ Rendered /\ op = ActivityPage /\ activities = OtherActivities
    /\ \E l \in EntityLinks : l.seg.text = <<"O", "t", "h", "e", "r", " ", "G", "o">>

----------------------------------------------------------------------------
(* Properties of names shared by several records, checked under SpecCollide *)

\* the list a linked record is from, and whether the page compares its ids
\* with the current id
ListOf(r) == IF r["Library"] = Activities THEN activities ELSE tools
ExcludesIn(r) == op = ToolPage \/ r["Library"] = Activities

\* the places in the list of r of the records that are not excluded and have
\* the canonical label of the link text, in lower case
SameLabel(r, text) ==
    {i \in 1..Len(ListOf(r)) :
        LET x == ListOf(r)[i]
        IN  /\ ToLowerCase(CanonicalLabel(x)) = ToLowerCase(text)
            /\ ~IsPlaceholder(CanonicalLabel(x))
            /\ (ExcludesIn(r) => ("id" \notin DOMAIN x \/ x["id"] # currentId))}

\* C21: when several records of one list that are not excluded have the same
\* canonical label in lower case, every link for an occurrence of that name
\* targets the one that comes last in the list, and none of the earlier ones
\* is the target of a link.
C21_NameCollision ==
    Rendered =>
        \A l \in EntityLinks :
            /\ SameLabel(l.seg.rec, l.seg.text) # {}
            /\ \A i \in SameLabel(l.seg.rec, l.seg.text) :
                  (\E j \in SameLabel(l.seg.rec, l.seg.text) : j > i)
                      => l.seg.rec # ListOf(l.seg.rec)[i]
            /\ l.seg.rec = ListOf(l.seg.rec)[CHOOSE i \in SameLabel(l.seg.rec, l.seg.text) :
                                \A j \in SameLabel(l.seg.rec, l.seg.text) : j <= i]

\* three activities share the name, the last one is the record on display:
\* the occurrence is linked to the second
C21_Witness ==
    /\ Rendered /\ op = ActivityPage /\ activities = CollideActivities
    /\ currentId = <<"3">>
    /\ \E l \in EntityLinks : l.seg.rec = activities[2] /\ l.seg.text = <<"g", "o">>

----------------------------------------------------------------------------
(* Order of the candidate names of the two libraries, checked under SpecLink *)

\* the lower-cased candidate names of one library on the activity page that
\* begin and end with a word character
WordNamesOf(list, excl) ==
    {n \in {ToLowerCase(DisplayNameOf(list[i])) :
                i \in {j \in 1..Len(list) : Admitted(list[j], currentId, excl)}} :
        n[1] \in WordChars /\ n[Len(n)] \in WordChars}

\* link l of a line lies inside a whole-word occurrence of the longer name n
InsideLonger(line, l, n) ==
    /\ Len(n) > Len(l.text)
    /\ \E p \in 1..Len(line) :
          WholeWordAt(line, n, p) /\ p <= l.first /\ l.last <= p + Len(n) - 1

\* C22: on the activity page the names of the two libraries are tried in one
\* descending-length order, so a link to an activity never lies inside a
\* whole-word occurrence of a strictly longer tool name.
C22_GlobalLengthOrder ==
    (Rendered /\ op = ActivityPage) =>
        \A k \in LineBlocks :
            \A l \in LinksOfBlock(k) :
                l.rec["Library"] = Activities =>
                    \A n \in WordNamesOf(tools, FALSE) :
                        ~InsideLonger(Lines[elements[k].key + 1], l, n)

\* the other direction holds, the activity names being tried first: a link to
\* a tool never lies inside a whole-word occurrence of a longer activity name
C22_ToolInsideActivityName ==
    (Rendered /\ op = ActivityPage) =>
        \A k \in LineBlocks :
            \A l \in LinksOfBlock(k) :
                l.rec["Library"] = Tools =>
                    \A n \in WordNamesOf(activities, TRUE) :
                        ~InsideLonger(Lines[elements[k].key + 1], l, n)

----------------------------------------------------------------------------
(* The call sites compared, checked under SpecCollide *)

\* the other kind of call site, and the output it gives for the same text,
\* tool list and current id, with no activities
OtherSite == IF op = ActivityPage THEN ToolPage ELSE ActivityPage
AtOtherSite == FormattedText(children, OtherSite, <<>>, tools, currentId)

\* C23: for the same text, the same tool list and the same exclude id, the
\* tool pages and the activity page called with no activities return the same
\* blocks and segments.
C23_SameAtEverySite ==
    (Rendered /\ activities = <<>>) =>
        /\ elements = AtOtherSite.elements
        /\ isNull = AtOtherSite.isNull

\* C23 amended: they do when no tool of the list has the exclude id, which
\* the tool pages compare with the tools' ids and the activity page does not.
C23_SameUnlessToolHasExcludeId ==
    (/\ Rendered /\ activities = <<>>
     /\ \A i \in 1..Len(tools) : IdOf(tools[i]) # currentId) =>
        /\ elements = AtOtherSite.elements
        /\ isNull = AtOtherSite.isNull

\* an activity page with no activities links a tool, on a text with a second
\* word, and no tool has the current id
C23_Witness ==
    /\ Rendered /\ op = ActivityPage /\ activities = <<>>
    /\ tools = CollideTools /\ currentId = <<"3">>
    /\ Cardinality(EntityLinks) = 2

----------------------------------------------------------------------------
(* Letter case and outer white space in the Ranker, checked under SpecRank *)

\* queries that differ from q in letter case and outer white space only
QueryVariants(q) ==
    {ToLowerCase(q), ToUpperCase(q), Trim(q), <<" ">> \o q, q \o <<"\t", " ">>,
     <<"\n">> \o ToUpperCase(q) \o <<" ">>}
        \cup {v \in Queries : ToLowerCase(Trim(v)) = ToLowerCase(Trim(q))}

\* record r with field f in capitals, or in small letters
FieldCased(r, f, upper) ==
    [r EXCEPT ![f] = IF upper THEN ToUpperCase(r[f]) ELSE ToLowerCase(r[f])]

\* every scored field of r in capitals, or in small letters
RecordCased(r, upper) ==
    [f \in DOMAIN r |->
        IF f \in ScoredFields
        THEN (IF upper THEN ToUpperCase(r[f]) ELSE ToLowerCase(r[f]))
        ELSE r[f]]

ListCased(l, upper) == [k \in 1..Len(l) |-> RecordCased(l[k], upper)]

\* C24: two queries that are equal after trimming and lower-casing give the
\* same output, and changing only the letter case of a field of a record
\* never changes its score, nor the order of the output.
C24_QueryNormalisation ==
    (Searched /\ ~threw) =>
        /\ \A v \in QueryVariants(query) : searchWithScoring(items, v) = ranked
        /\ \A k \in 1..Len(items) : \A f \in DOMAIN items[k] : \A upper \in BOOLEAN :
              calculateItemScore(FieldCased(items[k], f, upper), Q)
                  = calculateItemScore(items[k], Q)
        /\ \A upper \in BOOLEAN :
              searchWithScoring(ListCased(items, upper), query) = ListCased(ranked, upper)

\* a padded query in capitals ranks two records whose names are in mixed and
\* in small letters
C24_Witness ==
    /\ Searched /\ ~threw
    /\ query = <<" ", "C", "A", "R", " ">>
    /\ Len(ranked) = 2
    /\ ranked[1]["Display Name"] = <<"C", "a", "r">>
    /\ ranked[2]["Display Name"] = <<"c", "a", "r", "t">>

----------------------------------------------------------------------------
(* Name matches against the other matches, checked under SpecRank *)

\* the name tier of every output record (1 exact, 2 prefix, 3 substring, 4 no
\* name holds the query) and its score
RankedTier == [k \in 1..Len(ranked) |-> C10_Tier(ranked[k])]
RankedScore == [k \in 1..Len(ranked) |-> calculateItemScore(ranked[k], Q)]

C25_WitnessSubstring ==
    /\ Searched /\ ~threw /\ query = Car /\ Len(items) = 2
    /\ C10_Tier(items[1]) = 3 /\ calculateItemScore(items[1], Car) = 100
    /\ C10_Tier(items[2]) = 4 /\ calculateItemScore(items[2], Car) = 215
    /\ ranked = <<items[2], items[1]>>

----------------------------------------------------------------------------
(* The text of the segments of one line, checked under SpecUrl *)

\* the string handed to formatTextWithLinks for item j of block k: the line
\* of a <div>, the trimmed line without its marker of a <li>
LinkedString(k, j) ==
    IF elements[k].kind = "div" THEN Lines[elements[k].key + 1]
    ELSE ItemTextOfLine(RunOfBlock(k) + j - 1)

\* C26: for every line and list-item string handed to inline linking, the
\* texts of the returned segments, concatenated in order, are that string, and
\* no returned plain-text segment is empty.
C26_LineRoundTrip ==
    Rendered =>
        \A k \in 1..Len(elements) : \A j \in 1..Len(elements[k].items) :
            LinkedString(k, j) # <<>> =>
                /\ SegsText(elements[k].items[j]) = LinkedString(k, j)
                /\ \A m \in 1..Len(elements[k].items[j]) :
                      elements[k].items[j][m].tag = "text"
                          => elements[k].items[j][m].text # <<>>

\* a line cut into an entity link, a blank, a URL and a blank
C26_Witness ==
    /\ Rendered /\ Len(elements) = 1 /\ Len(LineSegs) = 4
    /\ LineSegs[1].tag = "entity" /\ LineSegs[2].tag = "text"
    /\ LineSegs[3].tag = "url" /\ LineSegs[4].tag = "text"
    /\ SegsText(LineSegs) = children

----------------------------------------------------------------------------
(* Entity names inside URLs, checked under SpecUrl *)

\* the lower-cased candidate names of the page
PageNames ==
    {ToLowerCase(DisplayNameOf(tools[i])) :
        i \in {j \in 1..Len(tools) : Admitted(tools[j], currentId, op = ToolPage)}}
    \cup (IF op = ActivityPage
          THEN {ToLowerCase(DisplayNameOf(activities[i])) :
                  i \in {j \in 1..Len(activities) : Admitted(activities[j], currentId, TRUE)}}
          ELSE {})

\* the whole-word occurrences <<position, name>> of candidate names inside the
\* URLs of the line as written
NamesInUrls ==
    {o \in (1..Len(children)) \X PageNames :
        /\ WholeWordAt(children, o[2], o[1])
        /\ \E u \in UrlsOf(children) :
              u[1] <= o[1] /\ o[1] + Len(o[2]) - 1 <= u[1] + Len(u[2]) - 1}

\* the segments of the line with a tag, as <<first, last>> positions
SpansOf(tag) ==
    {<<SegStart(LineSegs, m), SegStart(LineSegs, m) + Len(LineSegs[m].text) - 1>> :
        m \in {n \in 1..Len(LineSegs) : LineSegs[n].tag = tag}}

C27_WitnessUrlBefore ==
    /\ Rendered /\ NamesInUrls # {}
    /\ Len(LineSegs) = 2
    /\ LineSegs[1].tag = "url" /\ LineSegs[2].tag = "entity"

----------------------------------------------------------------------------
(* The Ranker applied to its own output, checked under SpecRank *)

\* C28: searchWithScoring applied to its own output with the same query
\* returns the same records in the same order.
C28_Idempotence ==
    (Searched /\ ~threw) => searchWithScoring(ranked, query) = ranked

\* two different records with the same score and the same numeric id, ranked
\* in input order
C28_Witness ==
    /\ Searched /\ ~threw /\ ~BlankQuery /\ Len(ranked) = 2
    /\ ranked[1] # ranked[2]
    /\ calculateItemScore(ranked[1], Q) = calculateItemScore(ranked[2], Q)
    /\ NumId(ranked[1]) = NumId(ranked[2])
    /\ ranked = items

\* an input that the first call had to reorder and to shorten
C28_WitnessReordered ==
    /\ Searched /\ ~threw /\ ~BlankQuery /\ Len(items) = 2 /\ Len(ranked) = 2
    /\ ranked # items
    /\ calculateItemScore(ranked[1], Q) > calculateItemScore(ranked[2], Q)

----------------------------------------------------------------------------
(* Properties of StarredProvider, checked under SpecStarLive *)

\* the stored starred list, and whether it is a JSON array
Stored == localStorage[STARRED_STORAGE_KEY]
IsStoredList(s) == s # NoItem /\ s # <<>> /\ JSONParse(s).isArray
IsUnparsable(s) == s # NoItem /\ s # <<>> /\ JSONParse(s).throws

\* nothing is queued or pending: the provider is at rest
AtRest == provider.updates = <<>> /\ provider.effects = <<>>

\* no write before the load has completed
NoWriteBeforeLoad == [][Stored' # Stored => provider.isLoaded]_vars

\* a stored list stays as it is until the first toggle
StoredListKept ==
    [][(IsStoredList(Stored) /\ provider'.toggled = 0) => Stored' = Stored]_vars

\* the provider becomes loaded, and with the empty list when the stored value
\* does not parse and nothing was toggled
LoadedAnyway ==
    /\ <>provider.isLoaded
    /\ [][(/\ ~provider.isLoaded /\ provider'.isLoaded
           /\ IsUnparsable(Stored) /\ provider.toggled = 0)
              => provider'.starredIds = <<>>]_vars

C29_WitnessSetItemThrew ==
    /\ AtRest /\ provider.isLoaded /\ provider.toggled = 1
    /\ provider.lastSave = "failed"
    /\ IsStoredList(Stored) /\ Stored # JSONStringify(provider.starredIds)

\* a stored text that is no JSON: loaded with the empty list, not yet written
C29_WitnessUnparsable ==
    /\ provider.isLoaded /\ provider.starredIds = <<>> /\ IsUnparsable(Stored)

----------------------------------------------------------------------------
(* Properties of IntroModal, checked under SpecModal *)

\* the stored flag of the library of the mounted modal
FlagWritten == Dismissed(localStorage, modal.type)

\* C30: once the dismissed flag of a library type is in storage, the modal of
\* that type is never opened by the timer again, under any interleaving of
\* the content load, the timer, the help button and the close events: a step
\* that opens it is no step of the timer.
C30_DismissalRespected ==
    [][(FlagWritten /\ ~modal.isOpen /\ modal'.isOpen) => modal'.timer = modal.timer]_vars

\* what holds: no timer is set while the flag is in storage, so a modal
\* mounted after the dismissal opens through the help button only
C30_NoTimerSetOnceDismissed ==
    [][(Dismissed(localStorage', modal'.type) /\ modal'.timer = "armed")
          => (modal.timer = "armed" /\ modal'.type = modal.type)]_vars

\* the race: the flag is in storage, the modal is closed and the timer of the
\* load is still to fire
C30_RaceState ==
    /\ modal.mounted /\ FlagWritten /\ ~modal.isOpen /\ modal.timer = "armed"

====
